---- MODULE Spec2Model ----
(***************************************************************************)
(* A model of the Othello engine of src/Othello.py: the board and its      *)
(* legal-move derivation, placement, the turn generator, the play loop of  *)
(* LocalVersus, the load routine of LoadLocalVersus, the saved-game viewer *)
(* SavedGamesLoader and the hashed search states of HashedLocalVersus.     *)
(*                                                                         *)
(* A position is <<x, y>>; the board is indexed board[y][x] as in the      *)
(* source.  A step (direction) is <<step_x, step_y>>.                      *)
(***************************************************************************)
EXTENDS Integers, Sequences, FiniteSets, TLC

\* ---------------------------------------------------------------- constants

BOARD_SIZE == 8

Coord == 0 .. (BOARD_SIZE - 1)

Positions == Coord \X Coord

FLIP_RULE == [c \in {"W", "B", "E"} |-> IF c = "W" THEN "B" ELSE IF c = "B" THEN "W" ELSE "E"]

FLIP_LINES == << <<-1, -1>>, <<-1, 1>>, <<1, -1>>, <<1, 1>>, <<1, 0>>, <<-1, 0>>, <<0, 1>>, <<0, -1>> >>

\* A START_POS whose colours sit in rows instead of on the diagonals
START_POS_rows(x, y) ==
  IF y = BOARD_SIZE \div 2 - 1 /\ x \in {BOARD_SIZE \div 2 - 1, BOARD_SIZE \div 2} THEN "W"
  ELSE IF y = BOARD_SIZE \div 2 /\ x \in {BOARD_SIZE \div 2 - 1, BOARD_SIZE \div 2} THEN "B"
  ELSE "E"

\* START_POS.get((x, y), "E"): the keys are the pairs (4,4), (3,3) (White) and (3,4), (4,3) (Black)
START_POS(x, y) ==
  IF (x = BOARD_SIZE \div 2 /\ y = BOARD_SIZE \div 2) \/ (x = BOARD_SIZE \div 2 - 1 /\ y = BOARD_SIZE \div 2 - 1)
    THEN "W"
  ELSE IF (x = BOARD_SIZE \div 2 - 1 /\ y = BOARD_SIZE \div 2) \/ (x = BOARD_SIZE \div 2 /\ y = BOARD_SIZE \div 2 - 1)
    THEN "B"
  ELSE "E"

None == "None"

\* ------------------------------------------------------------ rules engine

InRange(x, y) == 0 <= x /\ x < 8 /\ 0 <= y /\ y < 8

\* A checking loop without the break on an empty cell: a line may run over gaps
RECURSIVE LineEndOverGaps(_, _, _, _, _)
LineEndOverGaps(b, pos, current_colour, step, i) ==
  IF i >= BOARD_SIZE THEN 0
  ELSE LET x == step[1] * i + pos[1]
           y == step[2] * i + pos[2]
       IN IF ~InRange(x, y) THEN 0
          ELSE IF i = 1
            THEN (IF b[y][x] # FLIP_RULE[current_colour] THEN 0
                  ELSE LineEndOverGaps(b, pos, current_colour, step, i + 1))
          ELSE IF b[y][x] = current_colour THEN i
          ELSE LineEndOverGaps(b, pos, current_colour, step, i + 1)

\* The checking loop of line_iterator for one direction: the index i at which the
\* loop breaks with flip_line_holds = True, or 0 when the flip line does not hold.
RECURSIVE LineEnd(_, _, _, _, _)
LineEnd(b, pos, current_colour, step, i) ==
  IF i >= BOARD_SIZE THEN 0
  ELSE LET x == step[1] * i + pos[1]
           y == step[2] * i + pos[2]
       IN IF ~InRange(x, y) THEN 0
          ELSE IF i = 1
            THEN (IF b[y][x] # FLIP_RULE[current_colour] THEN 0
                  ELSE LineEnd(b, pos, current_colour, step, i + 1))
          ELSE IF b[y][x] = current_colour THEN i
          ELSE IF b[y][x] = "E" THEN 0
          ELSE LineEnd(b, pos, current_colour, step, i + 1)

\* What line_iterator yields for one direction: <<x, y, step>> for z in range(1, i)
LineCells(b, pos, current_colour, step) ==
  LET i == LineEnd(b, pos, current_colour, step, 1)
  IN [z \in 1 .. (i - 1) |-> <<step[1] * z + pos[1], step[2] * z + pos[2], step>>]

\* line_iterator on a board that is not changed while it runs
RECURSIVE line_iterator(_, _, _, _)
line_iterator(b, pos, current_colour, check_lines) ==
  IF check_lines = << >> THEN << >>
  ELSE LineCells(b, pos, current_colour, Head(check_lines))
         \o line_iterator(b, pos, current_colour, Tail(check_lines))

check_flip_line(b, pos, current_colour, check_line) ==
  LET it == line_iterator(b, pos, current_colour, <<check_line>>)
  IN IF it = << >> THEN None ELSE it[1][3]

\* The steps of FLIP_LINES that pass the range check of adjacent at (x, y):
\* 0 <= x + step_x < BOARD_SIZE and 0 <= y + step_y < BOARD_SIZE
StepsOnBoard ==
  [x \in Coord |-> [y \in Coord |->
     SelectSeq(FLIP_LINES, LAMBDA step : /\ 0 <= x + step[1] /\ x + step[1] < BOARD_SIZE
                                         /\ 0 <= y + step[2] /\ y + step[2] < BOARD_SIZE)]]

\* adjacent: <<colour, step>> for every neighbour on the board that is not empty
adjacent(b, pos) ==
  LET steps == SelectSeq(StepsOnBoard[pos[1]][pos[2]],
                         LAMBDA step : b[pos[2] + step[2]][pos[1] + step[1]] # "E")
  IN [k \in 1 .. Len(steps) |-> <<b[pos[2] + steps[k][2]][pos[1] + steps[k][1]], steps[k]>>]

\* The list the adjacency loop of board_change builds for one empty cell and one
\* colour: check_flip_line's direction for every neighbour of the opposite colour
\* whose flip line holds (w_check and b_check are never set)
MoveEntry(b, pos, colour, adj) ==
  LET hits == SelectSeq(adj, LAMBDA adjacency :
                 /\ adjacency[1] = FLIP_RULE[colour]
                 /\ check_flip_line(b, pos, colour, adjacency[2]) # None)
  IN [k \in 1 .. Len(hits) |-> check_flip_line(b, pos, colour, hits[k][2])]

\* The body of the loops of board_change for the cell pos: nothing for a cell
\* that is not empty, else the list the adjacency loop leaves for the colour
CellMoves(b, pos, colour) ==
  IF b[pos[2]][pos[1]] = "E" THEN MoveEntry(b, pos, colour, adjacent(b, pos)) ELSE << >>

\* board_change: the new possible_moves; a cell is a key when its list is not empty
board_change(b) ==
  [colour \in {"W", "B"} |->
     LET keys == {pos \in Positions : CellMoves(b, pos, colour) # << >>}
     IN [pos \in keys |-> CellMoves(b, pos, colour)]]

flip(b, pos) == [b EXCEPT ![pos[2]][pos[1]] = FLIP_RULE[b[pos[2]][pos[1]]]]

RECURSIVE FlipCells(_, _)
FlipCells(b, cells) ==
  IF cells = << >> THEN b
  ELSE FlipCells(flip(b, <<Head(cells)[1], Head(cells)[2]>>), Tail(cells))

\* A flip_line that stops after the first recorded direction
flip_line_first(b, pos, current_colour, dirs) ==
  IF dirs = << >> THEN b
  ELSE FlipCells(b, LineCells(b, pos, current_colour, Head(dirs)))

\* flip_line: the generator checks one direction on the board as it is then,
\* yields that direction's cells, each flipped as it is yielded, and goes on
RECURSIVE flip_line(_, _, _, _)
flip_line(b, pos, current_colour, dirs) ==
  IF dirs = << >> THEN b
  ELSE flip_line(FlipCells(b, LineCells(b, pos, current_colour, Head(dirs))),
                 pos, current_colour, Tail(dirs))

\* place: the board after board[pos] = colour and flip_line (board_change follows)
place(b, pm, pos, current_colour) ==
  flip_line([b EXCEPT ![pos[2]][pos[1]] = current_colour], pos, current_colour, pm[current_colour][pos])

\* can_be_placed on a pair of integers: the validity flag
can_be_placed(pm, pos, current_colour) ==
  IF 0 <= pos[1] /\ pos[1] < BOARD_SIZE /\ 0 <= pos[2] /\ pos[2] < BOARD_SIZE
    THEN pos \in DOMAIN pm[current_colour]
    ELSE FALSE

\* A count whose loops stop one short, at range(BOARD_SIZE - 1)
count_pieces_short(b) ==
  [c \in {"W", "B", "E"} |->
     Cardinality({p \in (0 .. (BOARD_SIZE - 2)) \X (0 .. (BOARD_SIZE - 2)) : b[p[1]][p[2]] = c})]

\* count_pieces: it reads board[x][y] for x, y in range(BOARD_SIZE)
count_pieces(b) ==
  [c \in {"W", "B", "E"} |-> Cardinality({p \in Positions : b[p[1]][p[2]] = c})]

InitBoard == [y \in Coord |-> [x \in Coord |-> START_POS(x, y)]]


\* ----------------------------------------------------------- turn generator

\* A suspended end_game_iterator: its local colour, where it is suspended
\* ("start": not yet run, "yield_a": at the yield of the if branch, line 168,
\* "yield_b": at the yield of the elif branch, line 172, "end": returned), and
\* prev, the colour it yielded before the latest yield (None when there is none).
end_game_iterator(colour) == [colour |-> colour, at |-> "start", prev |-> None]

Yielded(g) == IF g.at \in {"yield_a", "yield_b"} THEN g.colour ELSE None

\* A generator without the elif branch: it ends as soon as the colour whose turn
\* it is has no legal move
GenNextNoPass(g, pm) ==
  IF g.at = "end" THEN g
  ELSE LET colour == IF g.at = "yield_a" THEN FLIP_RULE[g.colour] ELSE g.colour
       IN IF DOMAIN pm[colour] # {}
            THEN [colour |-> colour, at |-> "yield_a", prev |-> Yielded(g)]
          ELSE [colour |-> colour, at |-> "end", prev |-> Yielded(g)]

\* A generator that yields the colours in turn while one of them has a legal
\* move, whether the colour it yields has one or not
GenNextInTurn(g, pm) ==
  IF g.at = "end" THEN g
  ELSE LET colour == IF g.at = "yield_a" THEN FLIP_RULE[g.colour] ELSE g.colour
       IN IF DOMAIN pm[colour] # {} \/ DOMAIN pm[FLIP_RULE[colour]] # {}
            THEN [colour |-> colour, at |-> "yield_a", prev |-> Yielded(g)]
          ELSE [colour |-> colour, at |-> "end", prev |-> Yielded(g)]

\* next() on the generator with the legal-move sets as they are at that moment
GenNext(g, pm) ==
  IF g.at = "end" THEN g
  ELSE LET colour == IF g.at = "yield_a" THEN FLIP_RULE[g.colour] ELSE g.colour
       IN IF DOMAIN pm[colour] # {}
            THEN [colour |-> colour, at |-> "yield_a", prev |-> Yielded(g)]
          ELSE IF DOMAIN pm[FLIP_RULE[colour]] # {}
            THEN [colour |-> FLIP_RULE[colour], at |-> "yield_b", prev |-> Yielded(g)]
          ELSE [colour |-> colour, at |-> "end", prev |-> Yielded(g)]

\* ------------------------------------------------------------- the move log

Digits == <<"0", "1", "2", "3", "4", "5", "6", "7", "8", "9">>

\* str(n) of a non-negative integer, as a sequence of characters
RECURSIVE str(_)
str(n) == IF n < 10 THEN <<Digits[n + 1]>> ELSE str(n \div 10) \o <<Digits[(n % 10) + 1]>>

\* The line SaveGame.save appends for an instruction
SaveLine(instruction) == str(instruction[1]) \o <<",">> \o str(instruction[2]) \o <<"\n">>

\* line.split(","): the parts between the commas
RECURSIVE split(_, _)
split(line, part) ==
  IF line = << >> THEN <<part>>
  ELSE IF Head(line) = "," THEN <<part>> \o split(Tail(line), << >>)
  ELSE split(Tail(line), Append(part, Head(line)))

Whitespace == {" ", "\n", "\t", "\r"}

RECURSIVE lstrip(_)
lstrip(s) == IF s # << >> /\ Head(s) \in Whitespace THEN lstrip(Tail(s)) ELSE s

RECURSIVE rstrip(_)
rstrip(s) == IF s # << >> /\ s[Len(s)] \in Whitespace THEN rstrip(SubSeq(s, 1, Len(s) - 1)) ELSE s

DigitValue(ch) == CHOOSE d \in 0 .. 9 : Digits[d + 1] = ch

RECURSIVE DecimalValue(_, _)
DecimalValue(s, acc) ==
  IF s = << >> THEN acc ELSE DecimalValue(Tail(s), acc * 10 + DigitValue(Head(s)))

\* The digits of a stripped string after its optional sign
Unsigned(t) == IF t # << >> /\ Head(t) \in {"-", "+"} THEN Tail(t) ELSE t

\* int(s) accepts s: a decimal with an optional sign and surrounding whitespace
IsDecimal(s) ==
  LET u == Unsigned(rstrip(lstrip(s)))
  IN u # << >> /\ \A k \in 1 .. Len(u) : \E d \in 1 .. 10 : Digits[d] = u[k]

\* int(s); "ValueError" for a string it does not accept
int(s) ==
  LET t == rstrip(lstrip(s))
  IN IF IsDecimal(s)
       THEN IF Head(t) = "-" THEN 0 - DecimalValue(Unsigned(t), 0) ELSE DecimalValue(Unsigned(t), 0)
       ELSE "ValueError"

\* get_pos_from_file / SavedGamesLoader.get_pos
get_pos_from_file(line) ==
  LET parts == split(line, << >>)
  IN <<int(parts[1]), int(parts[2])>>

\* The Python values a caller can hand to can_be_placed: None, an integer, a
\* string, or a tuple of such values
PyNone == [t |-> "NoneType", i |-> 0, s |-> << >>]
PyInt(n) == [t |-> "int", i |-> n, s |-> << >>]
PyStr(chars) == [t |-> "str", i |-> 0, s |-> chars]
PyTuple(values) == [t |-> "tuple", items |-> values]

\* pos[k] for k = 0, 1: an item of a tuple, a character of a string, TypeError
\* for a value without subscript and IndexError past the end
Subscript(pos, k) ==
  IF pos.t = "tuple"
    THEN IF k < Len(pos.items) THEN [raises |-> "", value |-> pos.items[k + 1]]
                               ELSE [raises |-> "IndexError", value |-> PyNone]
  ELSE IF pos.t = "str"
    THEN IF k < Len(pos.s) THEN [raises |-> "", value |-> PyStr(<<pos.s[k + 1]>>)]
                           ELSE [raises |-> "IndexError", value |-> PyNone]
  ELSE [raises |-> "TypeError", value |-> PyNone]

\* int(v) of a Python value: TypeError for None and tuples, ValueError for a
\* string that is no integer
PyToInt(v) ==
  IF v.t = "int" THEN [raises |-> "", value |-> v.i]
  ELSE IF v.t = "str"
    THEN IF IsDecimal(v.s) THEN [raises |-> "", value |-> int(v.s)]
                           ELSE [raises |-> "ValueError", value |-> 0]
  ELSE [raises |-> "TypeError", value |-> 0]

\* can_be_placed on any Python value: the exception that leaves it ("" for
\* none), the position and the validity flag it returns. Only ValueError is
\* caught by its except clause.
can_be_placed_value(pm, pos, current_colour) ==
  LET first == Subscript(pos, 0)
      x == PyToInt(first.value)
      second == Subscript(pos, 1)
      y == PyToInt(second.value)
      conversion == IF first.raises # "" THEN first.raises
                    ELSE IF x.raises # "" THEN x.raises
                    ELSE IF second.raises # "" THEN second.raises
                    ELSE y.raises
  IN IF conversion = "ValueError" THEN [raises |-> "", pos |-> << >>, valid |-> FALSE]
     ELSE IF conversion # "" THEN [raises |-> conversion, pos |-> << >>, valid |-> FALSE]
     ELSE [raises |-> "", pos |-> <<x.value, y.value>>,
           valid |-> can_be_placed(pm, <<x.value, y.value>>, current_colour)]

\* ------------------------------------------------------------ Zobrist hash

XOR_INDICES == [c \in {"W", "B", "E"} |-> IF c = "W" THEN 1 ELSE IF c = "B" THEN 2 ELSE 0]

\* AI.table holds 3 random 64-bit words per cell. The model takes the table of
\* 192-bit words in which table[cell][index] has the single bit 3 * cell + index
\* set. Its entries are linearly independent, so two XOR combinations of table
\* entries that are equal here are equal for every table getrandbits can draw.
\* A hash is the function from the bit positions to the bits.
HashBits == 0 .. (3 * BOARD_SIZE * BOARD_SIZE - 1)

table(cell, index) == 3 * cell + index

\* hash ^ word, for a word of the table given by the position of its bit
Xor(h, word) == [h EXCEPT ![word] = 1 - @]

ZeroHash == [i \in HashBits |-> 0]

\* a ^ b for two words
XorWords(a, b) == [i \in HashBits |-> (a[i] + b[i]) % 2]

\* The inner loop of get_hash_version, for x in range(BOARD_SIZE) from x on: the
\* XOR of the table entries of the cells of row y
RECURSIVE ZobristRow(_, _, _)
ZobristRow(b, y, x) ==
  IF x >= BOARD_SIZE THEN ZeroHash
  ELSE Xor(ZobristRow(b, y, x + 1), table(y * BOARD_SIZE + x, XOR_INDICES[b[y][x]]))

\* The outer loop, for y in range(BOARD_SIZE) from y on (^ is associative and
\* commutative: the rows are combined instead of threading one accumulator)
RECURSIVE ZobristRows(_, _)
ZobristRows(b, y) ==
  IF y >= BOARD_SIZE THEN ZeroHash
  ELSE XorWords(ZobristRow(b, y, 0), ZobristRows(b, y + 1))

\* The search state get_hash_version builds from the live game: a copy of the
\* board with its hash, and the live legal-move sets
get_hash_version(b, pm) ==
  [board |-> b, hash_num |-> ZobristRows(b, 0), possible_moves |-> pm]

\* A flip that takes the old colour out of the hash and does not put the new one in
HashedFlipHalf(st, pos) ==
  LET current_colour == st.board[pos[2]][pos[1]]
      cell == pos[2] * BOARD_SIZE + pos[1]
  IN [st EXCEPT
        !.board = [st.board EXCEPT ![pos[2]][pos[1]] = FLIP_RULE[current_colour]],
        !.hash_num = Xor(st.hash_num, table(cell, XOR_INDICES[current_colour]))]

\* HashedLocalVersus.flip on a search state
HashedFlip(st, pos) ==
  LET current_colour == st.board[pos[2]][pos[1]]
      cell == pos[2] * BOARD_SIZE + pos[1]
  IN [st EXCEPT
        !.board = [st.board EXCEPT ![pos[2]][pos[1]] = FLIP_RULE[current_colour]],
        !.hash_num = Xor(Xor(st.hash_num, table(cell, XOR_INDICES[current_colour])),
                         table(cell, XOR_INDICES[FLIP_RULE[current_colour]]))]

RECURSIVE HashedFlipCells(_, _)
HashedFlipCells(st, cells) ==
  IF cells = << >> THEN st
  ELSE HashedFlipCells(HashedFlip(st, <<Head(cells)[1], Head(cells)[2]>>), Tail(cells))

\* flip_line as HashedLocalVersus inherits it: it flips through HashedFlip
RECURSIVE HashedFlipLine(_, _, _, _)
HashedFlipLine(st, pos, current_colour, dirs) ==
  IF dirs = << >> THEN st
  ELSE HashedFlipLine(HashedFlipCells(st, LineCells(st.board, pos, current_colour, Head(dirs))),
                      pos, current_colour, Tail(dirs))

\* HashedLocalVersus.place, with the board_change that ends it
HashedPlace(st, pos, current_colour) ==
  LET cell == pos[2] * BOARD_SIZE + pos[1]
      put == [st EXCEPT
                !.board = [st.board EXCEPT ![pos[2]][pos[1]] = current_colour],
                !.hash_num = Xor(Xor(st.hash_num, table(cell, XOR_INDICES["E"])),
                                 table(cell, XOR_INDICES[current_colour]))]
      flipped == HashedFlipLine(put, pos, current_colour, st.possible_moves[current_colour][pos])
  IN [flipped EXCEPT !.possible_moves = board_change(flipped.board)]

\* A terminal test that is never satisfied
check_if_terminal_never(st) == FALSE

\* A terminal test that is satisfied when one colour cannot move
check_if_terminal_either(st) ==
  DOMAIN st.possible_moves["B"] = {} \/ DOMAIN st.possible_moves["W"] = {}

\* AI.check_if_terminal
check_if_terminal(st) ==
  IF DOMAIN st.possible_moves["B"] = {} /\ DOMAIN st.possible_moves["W"] = {} THEN TRUE
  ELSE IF DOMAIN st.possible_moves["B"] = {} \/ DOMAIN st.possible_moves["W"] = {}
    THEN LET count == count_pieces(st.board)
             smaller == IF count["W"] <= count["B"] THEN count["W"] ELSE count["B"]
         IN smaller = 0
  ELSE FALSE

\* A turn that changes hands after every placement, whatever the legal moves
ChildMaximising_alternate(mover, child) == mover = "B"

\* The maximising_player argument minimax passes to the child it reaches by a
\* placement of colour: TRUE when White moves next
ChildMaximising(colour, child) ==
  IF colour = "W" THEN DOMAIN child.possible_moves["B"] = {}
  ELSE DOMAIN child.possible_moves["W"] # {}

\* ------------------------------------------------------------------ scores

\* Scores are exact fractions <<numerator, denominator>> in lowest terms with a
\* positive denominator; float('inf') and float('-inf') have denominator 0. The
\* rounding of Python floats is left out.
RECURSIVE gcd(_, _)
gcd(a, b) == IF b = 0 THEN a ELSE gcd(b, a % b)

Abs(n) == IF n < 0 THEN 0 - n ELSE n

Fraction(n, d) ==
  LET g == gcd(Abs(n), Abs(d))
  IN IF d < 0 THEN <<(0 - n) \div g, (0 - d) \div g>> ELSE <<n \div g, d \div g>>

inf == <<1, 0>>

neg_inf == <<-1, 0>>

\* a / b < c / d for positive b and d, by the integer parts and then the
\* remainders, so that no product leaves the range of the integers
RECURSIVE FractionLess(_, _, _, _)
FractionLess(a, b, c, d) ==
  IF a \div b # c \div d THEN a \div b < c \div d
  ELSE IF c % d = 0 THEN FALSE
  ELSE IF a % b = 0 THEN TRUE
  ELSE FractionLess(d, c % d, b, a % b)

\* p < q on scores
Less(p, q) ==
  IF p = q THEN FALSE
  ELSE IF p[2] = 0 THEN p[1] < 0
  ELSE IF q[2] = 0 THEN q[1] > 0
  ELSE FractionLess(p[1], p[2], q[1], q[2])

min(p, q) == IF Less(q, p) THEN q ELSE p

\* A max that gives the lower of the two scores
max_lower(p, q) == IF Less(p, q) THEN p ELSE q

max(p, q) == IF Less(p, q) THEN q ELSE p

\* p + n for an integer n
Plus(p, n) == IF p[2] = 0 THEN p ELSE <<p[1] + n * p[2], p[2]>>

\* --------------------------------------------------------------- utilities

\* A sort in ascending order of count
SortedCountAscending(b) ==
  LET count == count_pieces(b)
  IN IF count["B"] < count["W"] THEN << <<count["B"], "B">>, <<count["W"], "W">> >>
                                ELSE << <<count["W"], "W">>, <<count["B"], "B">> >>

\* sorted(count_pieces().items(), key=count, reverse=True) without "E": the
\* <<count, colour>> pairs, the larger count first; the sort is stable and
\* count_pieces builds its dictionary with "W" before "B"
SortedCount(b) ==
  LET count == count_pieces(b)
  IN IF count["B"] > count["W"] THEN << <<count["B"], "B">>, <<count["W"], "W">> >>
                                ELSE << <<count["W"], "W">>, <<count["B"], "B">> >>

\* AI.terminal_utility
terminal_utility(othello) ==
  LET count == SortedCount(othello.board)
  IN IF count[1][1] = count[2][1] THEN <<0, 1>>
     ELSE IF count[1][2] = "W" THEN <<85 + count[1][1] - count[2][1], 1>>
     ELSE <<(0 - 85) - count[1][1] + count[2][1], 1>>

\* SAFE_LINES, in (y, x, line_diff) notation
SAFE_LINES ==
  << <<0, 0, <<0, 1>>>>, <<0, 0, <<1, 0>>>>,
     <<0, BOARD_SIZE - 1, <<0, -1>>>>, <<0, BOARD_SIZE - 1, <<1, 0>>>>,
     <<BOARD_SIZE - 1, 0, <<0, 1>>>>, <<BOARD_SIZE - 1, 0, <<0, 1>>>>,
     <<BOARD_SIZE - 1, BOARD_SIZE - 1, <<0, -1>>>>, <<BOARD_SIZE - 1, BOARD_SIZE - 1, <<-1, 0>>>> >>

\* AI.dumb_line_iterator: what it yields; its loop runs while
\* 0 >= x > BOARD_SIZE and 0 >= y > BOARD_SIZE
RECURSIVE dumb_line_iterator(_, _, _)
dumb_line_iterator(y, x, line_diff) ==
  IF (0 >= x /\ x > BOARD_SIZE) /\ (0 >= y /\ y > BOARD_SIZE)
    THEN << <<y, x>> >> \o dumb_line_iterator(y + line_diff[1], x + line_diff[2], line_diff)
    ELSE << >>

\* The inner loop of the stable count: cells are appended while the corner has
\* the colour and the cell is not in the list yet
RECURSIVE StableWalk(_, _, _, _, _)
StableWalk(b, c, corner, cells, stable) ==
  IF cells = << >> THEN stable
  ELSE IF b[corner[1]][corner[2]] = c /\ \A k \in 1 .. Len(stable) : stable[k] # Head(cells)
    THEN StableWalk(b, c, corner, Tail(cells), Append(stable, Head(cells)))
    ELSE stable

\* white_stable and black_stable of heuristic_utility after the first k entries
\* of SAFE_LINES
RECURSIVE Stable(_, _, _)
Stable(b, c, k) ==
  IF k = 0 THEN << >>
  ELSE LET y == SAFE_LINES[k][1]
           x == SAFE_LINES[k][2]
           before == Stable(b, c, k - 1)
       IN IF b[y][x] = c
            THEN StableWalk(b, c, <<y, x>>, dumb_line_iterator(y, x, SAFE_LINES[k][3]),
                            Append(before, <<y, x>>))
            ELSE before

\* white_unstable for c = "B", black_unstable for c = "W": the squares the
\* moves of c would flip
Unstable(othello, c) ==
  UNION { {<<cell[1], cell[2]>> : cell \in
             {line_iterator(othello.board, pos, c, othello.possible_moves[c][pos])[k] :
                k \in 1 .. Len(line_iterator(othello.board, pos, c, othello.possible_moves[c][pos]))}} :
          pos \in DOMAIN othello.possible_moves[c] }

piece_to_heuristic == [c \in {"W", "B", "E"} |-> IF c = "W" THEN 1 ELSE IF c = "B" THEN -1 ELSE 0]

\* The four terms of heuristic_utility as numerator and denominator; a term the
\* code sets to 0 to avoid a division by zero is 0 / 1
HeuristicTerms(othello) ==
  LET count == count_pieces(othello.board)
      white_move_count == Cardinality(DOMAIN othello.possible_moves["W"])
      black_move_count == Cardinality(DOMAIN othello.possible_moves["B"])
      corners == << othello.board[0][0], othello.board[BOARD_SIZE - 1][0],
                    othello.board[0][BOARD_SIZE - 1], othello.board[BOARD_SIZE - 1][BOARD_SIZE - 1] >>
      total_corners_captured ==
        Abs(piece_to_heuristic[corners[1]]) + Abs(piece_to_heuristic[corners[2]])
          + Abs(piece_to_heuristic[corners[3]]) + Abs(piece_to_heuristic[corners[4]])
      corner_sum ==
        piece_to_heuristic[corners[1]] + piece_to_heuristic[corners[2]]
          + piece_to_heuristic[corners[3]] + piece_to_heuristic[corners[4]]
      white_stability == Len(Stable(othello.board, "W", Len(SAFE_LINES)))
                           - Cardinality(Unstable(othello, "B"))
      black_stability == Len(Stable(othello.board, "B", Len(SAFE_LINES)))
                           - Cardinality(Unstable(othello, "W"))
  IN [piece_count |-> <<count["W"] - count["B"], count["W"] + count["B"]>>,
      mobility |-> <<white_move_count - black_move_count, white_move_count + black_move_count>>,
      corner_capture |-> IF total_corners_captured # 0 THEN <<corner_sum, total_corners_captured>>
                         ELSE <<0, 1>>,
      stability |-> IF white_stability + black_stability # 0
                      THEN <<white_stability - black_stability, white_stability + black_stability>>
                      ELSE <<0, 1>>]

\* AI.heuristic_utility:
\* 30 * corner_capture + mobility * 5 + stability * 25 + piece_count * 25
heuristic_utility(othello) ==
  LET t == HeuristicTerms(othello)
      c == t.corner_capture
      m == t.mobility
      s == t.stability
      p == t.piece_count
  IN Fraction(30 * c[1] * m[2] * s[2] * p[2] + 5 * m[1] * c[2] * s[2] * p[2]
                + 25 * s[1] * c[2] * m[2] * p[2] + 25 * p[1] * c[2] * m[2] * s[2],
              c[2] * m[2] * s[2] * p[2])

\* ------------------------------------------------------------------ minimax

\* The order in which board_change inserts the keys of a legal-move dictionary:
\* x in the outer loop, y in the inner one
ScanOrder == [k \in 1 .. BOARD_SIZE * BOARD_SIZE |-> <<(k - 1) \div BOARD_SIZE, (k - 1) % BOARD_SIZE>>]

\* The keys in the order of the dictionary, whatever check_move_first is
SortedMoves_plain(moves, check_move_first) ==
  SelectSeq(ScanOrder, LAMBDA pos : pos \in DOMAIN moves)

\* sorted(possible_moves[c].keys(), key=lambda x: x != check_move_first)
SortedMoves(moves, check_move_first) ==
  LET keys == SelectSeq(ScanOrder, LAMBDA pos : pos \in DOMAIN moves)
  IN SelectSeq(keys, LAMBDA pos : pos = check_move_first)
       \o SelectSeq(keys, LAMBDA pos : pos # check_move_first)

\* searched_moves[board.board_state] = (value, type_of_info, depth, move): keys
\* are equal when their boards are
Store(searched_moves, b, value, type_of_info, depth, move) ==
  {e \in searched_moves : e.board # b}
    \cup {[board |-> b, value |-> value, type_of_info |-> type_of_info, depth |-> depth, move |-> move]}

\* What a call of minimax hands back: the score, the move (a pair only when the
\* call returns a tuple) and the table as the call leaves it
Returns(score, action, is_tuple, searched_moves) ==
  [score |-> score, action |-> action, is_tuple |-> is_tuple, searched_moves |-> searched_moves,
   expanded |-> << >>, raised |-> FALSE, exception |-> "none"]

\* A for loop of minimax between two passes: score, the bound the loop moves
\* (a in the maximising branch, b in the minimising one), action, the table,
\* and whether the loop has left by break. expanded lists the moves the loop
\* has placed so far, in the order of its passes.
LoopState(score, bound, action, searched_moves, broke) ==
  [score |-> score, bound |-> bound, action |-> action, searched_moves |-> searched_moves,
   broke |-> broke, expanded |-> << >>, raised |-> FALSE, exception |-> "none"]

\* The loop a call on a child has left by an exception
Propagated(before, possible_action, evaluation) ==
  [before EXCEPT !.searched_moves = evaluation.searched_moves, !.broke = TRUE, !.raised = TRUE,
                 !.exception = evaluation.exception,
                 !.expanded = Append(before.expanded, possible_action)]

\* One pass of the loop of the maximising branch after the call on the child
MaximisingPass(before, possible_action, beta, evaluation) ==
  LET score == max(before.score, evaluation.score)
      a == max(before.bound, score)
  IN IF evaluation.raised THEN Propagated(before, possible_action, evaluation)
     ELSE [LoopState(score, a,
                     IF Less(before.score, evaluation.score) THEN possible_action ELSE before.action,
                     evaluation.searched_moves, ~Less(a, beta))
             EXCEPT !.expanded = Append(before.expanded, possible_action)]

\* One pass of the loop of the minimising branch after the call on the child
MinimisingPass(before, possible_action, alpha, evaluation) ==
  LET score == min(before.score, evaluation.score)
      b == min(before.bound, score)
  IN IF evaluation.raised THEN Propagated(before, possible_action, evaluation)
     ELSE [LoopState(score, b,
                     IF Less(evaluation.score, before.score) THEN possible_action ELSE before.action,
                     evaluation.searched_moves, ~Less(alpha, b))
             EXCEPT !.expanded = Append(before.expanded, possible_action)]

\* A look into the table that trusts an entry of any depth
Lookup_any_depth(searched_moves, board_, alpha_in, beta_in, lookahead) ==
  LET found == {e \in searched_moves : e.board = board_.board}
      search == CHOOSE e \in found : TRUE
      alpha == IF search.type_of_info = 0 THEN max(alpha_in, search.value) ELSE alpha_in
      beta == IF search.type_of_info = 2 THEN min(beta_in, search.value) ELSE beta_in
  IN IF found = {}
       THEN [hit |-> FALSE, returns |-> FALSE, value |-> << >>, move |-> << >>,
             alpha |-> alpha_in, beta |-> beta_in, check_move_first |-> << >>]
     ELSE [hit |-> TRUE, returns |-> search.type_of_info = 1 \/ ~Less(alpha, beta),
           value |-> search.value, move |-> search.move,
           alpha |-> alpha, beta |-> beta, check_move_first |-> search.move]

\* The head of minimax: the entry of the table for the board is used when its
\* depth is at least lookahead. hit: the if branch is taken; returns: it returns
\* the stored value; alpha, beta: the window after it; check_move_first: None
\* (here << >>) on the else branch.
Lookup(searched_moves, board_, alpha_in, beta_in, lookahead) ==
  LET found == {e \in searched_moves : e.board = board_.board /\ e.depth >= lookahead}
      search == CHOOSE e \in found : TRUE
      alpha == IF search.type_of_info = 0 THEN max(alpha_in, search.value) ELSE alpha_in
      beta == IF search.type_of_info = 2 THEN min(beta_in, search.value) ELSE beta_in
  IN IF found = {}
       THEN [hit |-> FALSE, returns |-> FALSE, value |-> << >>, move |-> << >>,
             alpha |-> alpha_in, beta |-> beta_in, check_move_first |-> << >>]
     ELSE [hit |-> TRUE, returns |-> search.type_of_info = 1 \/ ~Less(alpha, beta),
           value |-> search.value, move |-> search.move,
           alpha |-> alpha, beta |-> beta, check_move_first |-> search.move]

\* An end of minimax that stores every score as an exact value
StoreAndReturn_exact(board_, alpha, beta, initial, lookahead, loop) ==
  [Returns(loop.score, loop.action, initial,
           Store(loop.searched_moves, board_.board, loop.score, 1, lookahead, loop.action))
     EXCEPT !.expanded = loop.expanded]

\* The call ends by an exception: of a call below, or the UnboundLocalError of
\* reading action when no pass of the loop has assigned it. No score is
\* returned and nothing is stored.
Raises(loop) ==
  [Returns(<< >>, << >>, FALSE, loop.searched_moves)
     EXCEPT !.expanded = loop.expanded, !.raised = TRUE,
            !.exception = IF loop.raised THEN loop.exception ELSE "UnboundLocalError"]

\* The branch of minimax at lookahead <= 0: heuristic_utility divides by the sum
\* of the two piece counts and by the sum of the two move counts, and Python
\* raises ZeroDivisionError where a sum is 0
Cutoff(board_, searched_moves) ==
  LET t == HeuristicTerms(board_)
  IN IF t.piece_count[2] = 0 \/ t.mobility[2] = 0
       THEN [Returns(<< >>, << >>, FALSE, searched_moves)
               EXCEPT !.raised = TRUE, !.exception = "ZeroDivisionError"]
     ELSE Returns(heuristic_utility(board_), << >>, FALSE, searched_moves)

\* The end of minimax: the entry it stores and what it returns
StoreAndReturn(board_, alpha, beta, initial, lookahead, loop) ==
  LET type_of_info == IF ~Less(loop.score, beta) THEN 0
                      ELSE IF Less(alpha, loop.score) THEN 1
                      ELSE 2
  IN IF loop.raised \/ loop.action = << >> THEN Raises(loop)
     ELSE [Returns(loop.score, loop.action, initial,
                   Store(loop.searched_moves, board_.board, loop.score, type_of_info, lookahead,
                         loop.action))
             EXCEPT !.expanded = loop.expanded]

RECURSIVE minimax(_, _, _, _, _, _, _)
RECURSIVE MaximisingLoop(_, _, _, _, _, _)
RECURSIVE MinimisingLoop(_, _, _, _, _, _)

\* The call of minimax on the board a placement of White has led to
MaximisingChild(new_board, a, beta, lookahead, searched_moves) ==
  minimax(new_board, a, beta, ChildMaximising("W", new_board), FALSE, lookahead - 1,
          searched_moves)

\* The call of minimax on the board a placement of Black has led to
MinimisingChild(new_board, alpha, b, lookahead, searched_moves) ==
  minimax(new_board, alpha, b, ChildMaximising("B", new_board), FALSE, lookahead - 1,
          searched_moves)

\* The for loop of the maximising branch from the k-th move on
MaximisingLoop(board_, moves, k, beta, lookahead, before) ==
  IF k > Len(moves) \/ before.broke THEN before
  ELSE MaximisingLoop(board_, moves, k + 1, beta, lookahead,
                      MaximisingPass(before, moves[k], beta,
                                     MaximisingChild(HashedPlace(board_, moves[k], "W"), before.bound,
                                                     beta, lookahead, before.searched_moves)))

\* The for loop of the minimising branch from the k-th move on
MinimisingLoop(board_, moves, k, alpha, lookahead, before) ==
  IF k > Len(moves) \/ before.broke THEN before
  ELSE MinimisingLoop(board_, moves, k + 1, alpha, lookahead,
                      MinimisingPass(before, moves[k], alpha,
                                     MinimisingChild(HashedPlace(board_, moves[k], "B"), alpha,
                                                     before.bound, lookahead, before.searched_moves)))

\* AI.minimax. A leaf returns the bare score even when initial is set.
minimax(board_, alpha_in, beta_in, maximising_player, initial, lookahead, searched_moves) ==
  LET search == Lookup(searched_moves, board_, alpha_in, beta_in, lookahead)
      alpha == search.alpha
      beta == search.beta
      check_move_first == search.check_move_first
  IN IF search.returns
       THEN Returns(search.value, search.move, initial, searched_moves)
     ELSE IF check_if_terminal(board_)
       THEN Returns(terminal_utility(board_), << >>, FALSE, searched_moves)
     ELSE IF lookahead <= 0
       THEN Cutoff(board_, searched_moves)
     ELSE StoreAndReturn(board_, alpha, beta, initial, lookahead,
            IF maximising_player
              THEN MaximisingLoop(board_, SortedMoves(board_.possible_moves["W"], check_move_first),
                                  1, beta, lookahead,
                                  LoopState(neg_inf, alpha, << >>, searched_moves, FALSE))
              ELSE MinimisingLoop(board_, SortedMoves(board_.possible_moves["B"], check_move_first),
                                  1, alpha, lookahead,
                                  LoopState(inf, beta, << >>, searched_moves, FALSE)))

\* Calls of minimax after which the loop of MTDF is cut
MaxPasses == 30

\* The variables of the while loop of MTDF, and the calls of minimax so far
MTDFState(guess, move, upper_bound, lower_bound, search_dict, passes) ==
  [guess |-> guess, move |-> move, upper_bound |-> upper_bound, lower_bound |-> lower_bound,
   search_dict |-> search_dict, passes |-> passes, raised |-> FALSE, exception |-> "none"]

\* A next beta that is the guess in every case
NextBeta_guess(before) == before.guess

\* beta of the next pass of the while loop
NextBeta(before) == IF before.guess = before.lower_bound THEN Plus(before.guess, 1) ELSE before.guess

\* One pass of the while loop of MTDF after its call of minimax
MTDFPass(before, beta, call) ==
  IF call.raised
    THEN [before EXCEPT !.search_dict = call.searched_moves, !.passes = before.passes + 1,
                        !.raised = TRUE, !.exception = call.exception]
  ELSE IF Less(call.score, beta)
    THEN MTDFState(call.score, call.action, call.score, before.lower_bound, call.searched_moves,
                   before.passes + 1)
    ELSE MTDFState(call.score, call.action, before.upper_bound, call.score, call.searched_moves,
                   before.passes + 1)

\* The while loop of MTDF; it is cut after MaxPasses calls of minimax
RECURSIVE MTDFLoop(_, _, _)
MTDFLoop(board_, lookahead, before) ==
  IF before.raised \/ ~Less(before.lower_bound, before.upper_bound) \/ before.passes >= MaxPasses
    THEN before
  ELSE MTDFLoop(board_, lookahead,
                MTDFPass(before, NextBeta(before),
                         minimax(board_, Plus(NextBeta(before), -1), NextBeta(before), TRUE, TRUE,
                                 lookahead, before.search_dict)))

\* What MTDF returns, the table as it leaves it, the calls of minimax it has
\* made and whether its loop has ended
MTDFReturns(after) ==
  [score |-> after.guess, move |-> after.move, search_dict |-> after.search_dict,
   passes |-> after.passes, returned |-> ~after.raised /\ ~Less(after.lower_bound, after.upper_bound),
   raised |-> after.raised, exception |-> after.exception]

\* AI.MTDF
MTDF(board_, first_guess, lookahead, search_dict) ==
  MTDFReturns(MTDFLoop(board_, lookahead,
                       MTDFState(first_guess, << >>, inf, neg_inf, search_dict, 0)))

\* The variables of the for loop of iterative_deepening, the depths and the
\* first guesses MTDF has been called with and the scores it returned; expires
\* is the depth after which time() is found past start_time + search_time (0:
\* never), broke whether the loop has left through its break, passes the calls
\* of minimax each MTDF has made and ended whether each of them has left its
\* while loop by the condition of the loop
DeepeningState(first_guess, even_guess, odd_guess, move, search_dict, depths) ==
  [first_guess |-> first_guess, even_guess |-> even_guess, odd_guess |-> odd_guess, move |-> move,
   search_dict |-> search_dict, depths |-> depths, raised |-> FALSE, exception |-> "none",
   guesses |-> << >>, scores |-> << >>, expires |-> 0, broke |-> FALSE, passes |-> << >>, ended |-> TRUE]

\* The guess the for loop hands to MTDF at depth
DeepeningGuess_latest(before, depth) == before.first_guess

DeepeningGuess(before, depth) ==
  IF depth % 2 = 0 THEN before.even_guess ELSE before.odd_guess

\* One pass of the for loop after its call of MTDF, with the test of the time
\* budget that follows the call
DeepeningPass(before, depth, call) ==
  IF call.raised
    THEN [before EXCEPT !.search_dict = call.search_dict, !.depths = Append(before.depths, depth),
                        !.guesses = Append(before.guesses, DeepeningGuess(before, depth)),
                        !.passes = Append(before.passes, call.passes),
                        !.raised = TRUE, !.exception = call.exception]
    ELSE [DeepeningState(call.score,
                         IF depth % 2 = 0 THEN call.score ELSE before.even_guess,
                         IF depth % 2 = 0 THEN before.odd_guess ELSE call.score,
                         call.move, call.search_dict, Append(before.depths, depth))
            EXCEPT !.guesses = Append(before.guesses, DeepeningGuess(before, depth)),
                   !.scores = Append(before.scores, call.score),
                   !.expires = before.expires,
                   !.broke = (depth = before.expires),
                   !.passes = Append(before.passes, call.passes),
                   !.ended = (before.ended /\ call.returned)]

\* The for loop of iterative_deepening from depth on: range(1, difficulty)
\* ends before difficulty, and the break leaves it after the pass that finds
\* the time budget spent
RECURSIVE DeepeningLoop(_, _, _, _)
DeepeningLoop(board_, depth, difficulty, before) ==
  IF depth >= difficulty \/ before.raised \/ before.broke THEN before
  ELSE DeepeningLoop(board_, depth + 1, difficulty,
                     DeepeningPass(before, depth,
                                   MTDF(board_, DeepeningGuess(before, depth), depth, before.search_dict)))

\* What iterative_deepening returns, the table as it leaves it and the depths
\* MTDF was called with
DeepeningReturns(after) ==
  [score |-> after.first_guess, move |-> after.move, search_dict |-> after.search_dict,
   depths |-> after.depths, raised |-> after.raised, exception |-> after.exception,
   guesses |-> after.guesses, scores |-> after.scores, broke |-> after.broke,
   passes |-> after.passes, ended |-> after.ended]

\* AI.iterative_deepening when the time budget is found spent after the search
\* of depth expires (0: never)
iterative_deepening_until(board_, difficulty, search_dict, expires) ==
  DeepeningReturns(DeepeningLoop(board_, 1, difficulty,
                                 [DeepeningState(<<0, 1>>, <<0, 1>>, <<0, 1>>, << >>, search_dict, << >>)
                                    EXCEPT !.expires = expires]))

\* AI.iterative_deepening when search_time does not run out
iterative_deepening(board_, difficulty, search_dict) ==
  iterative_deepening_until(board_, difficulty, search_dict, 0)

\* ------------------------------------------------------------------ bounds

\* Plies a game is played on after it has left the recorded lines of play
MaxFree == 1

\* Messages on the queue to the network thread beyond which no further message
\* that places nothing is taken
MaxSent == 1

\* Positions of clicks in a network game that are no legal move at the start
OddInputs == {<<3, 3>>, <<8, 0>>}

\* The deepest lookahead a search is started with on the recorded lines of play;
\* every ply played off them takes one ply from it
MaxDepth == 2

\* Recorded lines of play the players follow: the shortest game that ends with
\* one colour wiped out, and a game in which Black has to pass after ply 8
Openings ==
  { << <<5, 4>>, <<3, 5>>, <<2, 4>>, <<5, 3>>, <<4, 6>>, <<5, 5>>, <<6, 4>>, <<4, 5>>, <<4, 2>> >>,
    << <<2, 3>>, <<2, 2>>, <<2, 1>>, <<1, 1>>, <<4, 5>>, <<2, 0>>, <<0, 0>>, <<0, 2>>, <<2, 4>> >> }

\* The save file a game leaves that played the moves of o
SaveFile(o) == [k \in 1 .. Len(o) |-> SaveLine(o[k])]

\* A save file whose third line is no legal move: Black may not take the corner
\* there. The lines around it are the lines of a recorded game.
CorruptFile == SaveFile(<< <<5, 4>>, <<3, 5>>, <<0, 0>>, <<5, 3>> >>)

\* A game of sixty plies that two players have played to a draw of 32 : 32
DrawnGame ==
  << <<3, 2>>, <<2, 4>>, <<4, 5>>, <<4, 2>>, <<2, 5>>, <<5, 4>>, <<6, 3>>, <<2, 6>>, <<5, 2>>, <<5, 1>>,
     <<5, 0>>, <<6, 1>>, <<7, 2>>, <<4, 6>>, <<1, 6>>, <<6, 2>>, <<4, 7>>, <<5, 3>>, <<2, 7>>, <<5, 5>>,
     <<4, 1>>, <<3, 7>>, <<6, 6>>, <<7, 3>>, <<1, 4>>, <<5, 6>>, <<5, 7>>, <<6, 4>>, <<7, 5>>, <<3, 6>>,
     <<2, 2>>, <<6, 5>>, <<3, 5>>, <<1, 5>>, <<0, 5>>, <<2, 1>>, <<2, 3>>, <<7, 6>>, <<1, 7>>, <<1, 2>>,
     <<2, 0>>, <<4, 0>>, <<0, 1>>, <<7, 1>>, <<3, 0>>, <<1, 1>>, <<6, 7>>, <<3, 1>>, <<6, 0>>, <<7, 4>>,
     <<0, 0>>, <<0, 4>>, <<0, 3>>, <<0, 6>>, <<1, 0>>, <<7, 0>>, <<0, 7>>, <<1, 3>>, <<0, 2>>, <<7, 7>> >>

\* The save files a game against the AI is resumed from
\* A game of ten placements after which Black has no piece left
WhiteWipeout ==
  << <<3, 2>>, <<2, 4>>, <<3, 5>>, <<2, 2>>, <<2, 3>>, <<4, 2>>, <<5, 4>>, <<6, 4>>, <<2, 5>>, <<2, 6>> >>

\* A game of nine placements after which White holds the corner (0, 0), has
\* one legal move and Black has none
CornerGame ==
  << <<3, 2>>, <<2, 2>>, <<5, 4>>, <<3, 1>>, <<1, 1>>, <<1, 3>>, <<3, 0>>, <<0, 0>>, <<0, 4>> >>

AISaveFiles == {SaveFile(o) : o \in Openings \cup {DrawnGame, WhiteWipeout, CornerGame}}

\* Plies of a save file after which a game against the AI is resumed: the
\* first MaxRoot ones, and the last ones, from which a search of MaxDepth
\* plies reaches the end of the game
MaxRoot == 5

ResumePoints(file) == {k \in 0 .. Len(file) : k <= MaxRoot \/ k >= Len(file) - MaxDepth}

\* First guesses MTDF is called with
FirstGuesses == {<<0, 1>>, <<-20, 1>>, <<37, 2>>}

\* The save files on disk
SaveFiles == {SaveFile(o) : o \in Openings} \cup {CorruptFile}

IsPrefix(s, t) == Len(s) <= Len(t) /\ SubSeq(t, 1, Len(s)) = s

\* Clicks the GUI can send: every square, and some positions off the board
ClickInputs == Positions \cup {<<-1, 3>>, <<8, 0>>, <<3, 8>>}

\* Values a click message can carry that are no pair of integers
ClickValues ==
  { PyNone,
    PyInt(5),
    PyTuple(<<PyInt(1)>>),
    PyTuple(<<PyNone, PyNone>>),
    PyTuple(<<PyStr(<<"a">>), PyStr(<<"b">>)>>),
    PyTuple(<<PyStr(<<"5">>), PyStr(<<"4", "\n">>)>>),
    PyStr(<<"5", "4">>),
    PyStr(<<"5">>) }

\* ------------------------------------------------------------------- state

VARIABLES
  kind,             \* the class of the object: "LocalVersus", "LoadLocalVersus", "AI", "LoadAI",
                    \* "NetworkVersus", "SavedGamesLoader"
  board,            \* self.board
  possible_moves,   \* self.possible_moves
  playing_colour,   \* self.playing_colour
  gen,              \* the end_game_iterator that drives the running loop
  pc,               \* where the worker is: "load", "play", "get_pos", "ai_play", "ai_place", "returned", "done", "quit", "raised", "error", "view"
  saved,            \* the lines save has appended to this game's save file
  free,             \* plies played off the recorded lines
  commands,         \* the lines of the save file load read
  line_count,       \* self.line_count
  load_count,       \* the local line_count of load
  search,           \* the HashedLocalVersus states of the running minimax calls, root first
  previous_states,  \* SavedGamesLoader.previous_states
  current_line,     \* SavedGamesLoader.current_line
  max_line,         \* SavedGamesLoader.max_line
  colour,           \* SavedGamesLoader.colour; NetworkVersus.colour, the colour of the local player
  gui_to_oth,       \* the messages waiting on the queue from the GUI to the worker
  oth_to_gui,       \* the messages the worker has put on the queue to the GUI, oldest first
  queue,            \* the reports load_othello has put on its queue
  oth_to_network,   \* the messages a NetworkVersus worker and its GUI have put on the queue to the network thread
  result,           \* what the last call of a search method has returned, with its arguments
  ai_tup,           \* tup[0] of the AI branch of AI.play: the move ai_play has returned, << >> when none waits
  self_search_dict, \* AI.search_dict: the table the timed searches of a game share
  net,              \* the two NetworkVersus workers of a network game, their queues and the connection between their network threads; << >> where one worker is looked at
  heap,             \* the possible_moves dictionaries the HashedLocalVersus objects of a search refer to; heap[1] is the one of the game
  tier              \* the difficulty AI.__init__ was given, a key of DIFFICULTY_TO_AI_CONFIG ("Easy" where the search is left open)

vars == <<kind, board, possible_moves, playing_colour, gen, pc, saved, free,
          commands, line_count, load_count, search, previous_states, current_line,
          max_line, colour, gui_to_oth, oth_to_gui, queue, oth_to_network, ai_tup, result, self_search_dict, tier, net, heap>>

viewerVars == <<previous_states, current_line, max_line, colour>>

loadVars == <<commands, line_count, load_count>>

ioVars == <<gui_to_oth, oth_to_gui, queue, oth_to_network>>

\* No search method has been called
NoResult == [call |-> "none"]

searchVars == <<search, ai_tup, result, self_search_dict, tier, net, heap>>

\* The queues of a thread that has just been started
NoMessages ==
  /\ gui_to_oth = << >>
  /\ oth_to_gui = << >>
  /\ queue = << >>
  /\ oth_to_network = << >>
  /\ ai_tup = << >>
  /\ result = NoResult
  /\ self_search_dict = {}
  /\ tier = "Easy"
  /\ net = << >>
  /\ heap = << >>

\* SavedGamesLoader.__init__: seek_amount = max(seek_amount, 0) with the default 64
seek_amount == 64

\* The fields of a game object that is no SavedGamesLoader
NoViewer ==
  /\ previous_states = << >>
  /\ current_line = 0
  /\ max_line = 1
  /\ colour = "W"

\* Othello.__init__
InitOthello ==
  /\ board = InitBoard
  /\ possible_moves = board_change(InitBoard)

\* Othello.__init__, SaveGame.__init__, LocalVersus.__init__ up to play()
InitLocalVersus ==
  /\ kind = "LocalVersus"
  /\ InitOthello
  /\ playing_colour = "B"
  /\ gen = end_game_iterator("B")
  /\ pc = "play"
  /\ saved = << >>
  /\ free = 0
  /\ commands = << >>
  /\ line_count = 0
  /\ load_count = 0
  /\ search = << >>
  /\ NoViewer
  /\ NoMessages

\* NetworkVersus.__init__ up to play(): get_colour has taken the colour of the
\* local player from the Net_Colour message
InitNetworkVersus ==
  /\ kind = "NetworkVersus"
  /\ InitOthello
  /\ playing_colour = "B"
  /\ gen = end_game_iterator("B")
  /\ pc = "play"
  /\ saved = << >>
  /\ free = 0
  /\ commands = << >>
  /\ line_count = 0
  /\ load_count = 0
  /\ search = << >>
  /\ previous_states = << >>
  /\ current_line = 0
  /\ max_line = 1
  /\ colour \in {"B", "W"}
  /\ NoMessages

\* AI.__init__ up to play()
InitAI ==
  /\ kind = "AI"
  /\ InitOthello
  /\ playing_colour = "B"
  /\ gen = end_game_iterator("B")
  /\ pc = "play"
  /\ saved = << >>
  /\ free = 0
  /\ commands = << >>
  /\ line_count = 0
  /\ load_count = 0
  /\ search = << >>
  /\ NoViewer
  /\ NoMessages

\* LoadLocalVersus.__init__ up to load(): the file is read, the loop is entered
InitLoadLocalVersus ==
  /\ kind = "LoadLocalVersus"
  /\ InitOthello
  /\ playing_colour = "B"
  /\ gen = end_game_iterator("B")
  /\ pc = "load"
  /\ saved = << >>
  /\ free = 0
  /\ commands \in SaveFiles
  /\ line_count \in 0 .. Len(commands)
  /\ load_count = 0
  /\ search = << >>
  /\ NoViewer
  /\ NoMessages

\* SavedGamesLoader.__init__ and the head of load(): the file is read
InitSavedGamesLoader ==
  /\ kind = "SavedGamesLoader"
  /\ InitOthello
  /\ playing_colour = "B"
  /\ commands \in SaveFiles
  /\ max_line = Len(commands)
  /\ colour = "W"
  /\ gen = end_game_iterator(FLIP_RULE["W"])
  /\ pc = "load"
  /\ saved = << >>
  /\ free = 0
  /\ line_count = 0
  /\ load_count = 0
  /\ search = << >>
  /\ previous_states = << >>
  /\ current_line = 0
  /\ NoMessages

\* LoadAI.__init__ up to load(): the file is read, the loop is entered
InitLoadAI ==
  /\ kind = "LoadAI"
  /\ InitOthello
  /\ playing_colour = "B"
  /\ gen = end_game_iterator("B")
  /\ pc = "load"
  /\ saved = << >>
  /\ free = 0
  /\ commands \in AISaveFiles
  /\ line_count \in ResumePoints(commands)
  /\ load_count = 0
  /\ search = << >>
  /\ NoViewer
  /\ NoMessages

Init == InitLocalVersus \/ InitLoadLocalVersus \/ InitAI \/ InitSavedGamesLoader

\* One pass of the for loop of LoadLocalVersus.load. zip takes the next line,
\* then the next colour; when either is exhausted, or on break, the loop is left,
\* playing_colour is flipped and LocalVersus.play starts its own generator.
LoadStep ==
  /\ kind \in {"LoadLocalVersus", "LoadAI"}
  /\ pc = "load"
  /\ LET g == GenNext(gen, possible_moves)
         leave(c) ==
           /\ playing_colour' = FLIP_RULE[c]
           /\ gen' = end_game_iterator(FLIP_RULE[c])
           /\ pc' = "play"
           /\ UNCHANGED <<board, possible_moves, saved, load_count>>
     IN IF load_count >= Len(commands) THEN leave(playing_colour)
        ELSE IF g.at = "end" THEN leave(playing_colour)
        ELSE IF load_count = line_count THEN leave(Yielded(g))
        ELSE LET tup == get_pos_from_file(commands[load_count + 1])
             IN IF ~can_be_placed(possible_moves, tup, Yielded(g))
                  THEN /\ pc' = "error"
                       /\ playing_colour' = Yielded(g)
                       /\ gen' = g
                       /\ load_count' = load_count + 1
                       /\ UNCHANGED <<board, possible_moves, saved>>
                  ELSE /\ playing_colour' = Yielded(g)
                       /\ gen' = g
                       /\ load_count' = load_count + 1
                       /\ saved' = Append(saved, SaveLine(tup))
                       /\ board' = place(board, possible_moves, tup, Yielded(g))
                       /\ possible_moves' = board_change(board')
                       /\ pc' = "load"
  /\ UNCHANGED <<kind, free, commands, line_count, search, ai_tup, result, self_search_dict, tier, net, heap>>
  /\ UNCHANGED viewerVars
  /\ UNCHANGED ioVars

\* AI.ai_colour
ai_colour == "W"

\* A print_board that never hides the legal moves
print_board_shown(k, b, pm, c) ==
  << [type |-> "Print", data |-> b],
     [type |-> "Colour", data |-> c],
     [type |-> "Possible", data |-> pm[c]],
     [type |-> "Count", data |-> [x \in {"W", "B"} |-> count_pieces(b)[x]]] >>

\* The messages of LocalVersus.print_board, AI.print_board and
\* NetworkVersus.print_board. The Print message
\* carries the board object itself; it is recorded with the value it has when it
\* is put.
print_board(k, b, pm, c) ==
  << [type |-> "Print", data |-> b],
     [type |-> "Colour", data |-> c],
     [type |-> "Possible", data |-> IF k \in {"AI", "LoadAI"} /\ c = ai_colour THEN << >>
                                    ELSE IF k = "NetworkVersus" /\ c # colour THEN << >>
                                    ELSE pm[c]],
     [type |-> "Count", data |-> [x \in {"W", "B"} |-> count_pieces(b)[x]]] >>

\* An evaluate_winner that gives each colour the count of the other
evaluate_winner_swapped(b) ==
  << [type |-> "Winner", data |-> [x \in {"W", "B"} |-> count_pieces(b)[FLIP_RULE[x]]]] >>

\* The message of LocalVersus.evaluate_winner, which then quits
evaluate_winner(b) ==
  << [type |-> "Winner", data |-> [x \in {"W", "B"} |-> count_pieces(b)[x]]] >>

\* The head of the for loop of LocalVersus.play and AI.play: the generator yields
\* the colour to move (print_board follows), or ends (print_board,
\* evaluate_winner, quit)
NextColour ==
  /\ kind \in {"LocalVersus", "LoadLocalVersus", "AI", "LoadAI", "NetworkVersus"}
  /\ pc = "play"
  /\ gen' = GenNext(gen, possible_moves)
  /\ IF gen'.at = "end"
       THEN /\ pc' = "done"
            /\ UNCHANGED playing_colour
            /\ oth_to_gui' = oth_to_gui \o print_board(kind, board, possible_moves, playing_colour)
                                        \o evaluate_winner(board)
       ELSE /\ playing_colour' = Yielded(gen')
            /\ pc' = IF kind \in {"AI", "LoadAI"} /\ playing_colour' = ai_colour THEN "ai_play"
                     ELSE "get_pos"
            /\ oth_to_gui' = oth_to_gui \o print_board(kind, board, possible_moves, playing_colour')
  /\ UNCHANGED <<kind, board, possible_moves, saved, free, search, gui_to_oth, queue, oth_to_network, ai_tup, result, self_search_dict, tier, net, heap>>
  /\ UNCHANGED loadVars
  /\ UNCHANGED viewerVars

Scripted(pos) == \E o \in Openings : IsPrefix(Append(saved, SaveLine(pos)), SaveFile(o))

\* A loop body that places the piece and leaves out the board_change of place
SaveAndPlace_stale(pos) ==
  /\ (free = 0 /\ Scripted(pos)) \/ free < MaxFree
  /\ free' = IF free = 0 /\ Scripted(pos) THEN 0 ELSE free + 1
  /\ saved' = Append(saved, SaveLine(pos))
  /\ board' = place(board, possible_moves, pos, playing_colour)
  /\ possible_moves' = possible_moves
  /\ pc' = "play"
  /\ UNCHANGED <<kind, playing_colour, gen>>
  /\ UNCHANGED loadVars
  /\ UNCHANGED viewerVars
  /\ UNCHANGED ioVars

\* The tail of the loop body of play: save(tup[0]) and place(tup[0], playing_colour)
SaveAndPlace(pos) ==
  /\ (free = 0 /\ Scripted(pos)) \/ free < MaxFree
  /\ free' = IF free = 0 /\ Scripted(pos) THEN 0 ELSE free + 1
  /\ saved' = Append(saved, SaveLine(pos))
  /\ board' = place(board, possible_moves, pos, playing_colour)
  /\ possible_moves' = board_change(board')
  /\ pc' = "play"
  /\ UNCHANGED <<kind, playing_colour, gen>>
  /\ UNCHANGED loadVars
  /\ UNCHANGED viewerVars
  /\ UNCHANGED ioVars

\* Main.on_end: the GUI puts End on the queue to the worker. The worker looks at
\* that queue in get_pos only, so the message is put while the worker waits
\* there or, in a game against the AI, when ai_play has returned its move.
on_end ==
  /\ kind \in {"LocalVersus", "LoadLocalVersus", "AI", "LoadAI"}
  /\ pc \in {"get_pos", "ai_place"}
  /\ gui_to_oth = << >>
  /\ gui_to_oth' = <<"End">>
  /\ UNCHANGED <<kind, board, possible_moves, playing_colour, gen, pc, saved, free, search,
                 oth_to_gui, queue, oth_to_network, ai_tup, result, self_search_dict, tier, net, heap>>
  /\ UNCHANGED loadVars
  /\ UNCHANGED viewerVars

\* get_pos takes End from the queue and quits
get_pos_End ==
  /\ pc = "get_pos"
  /\ gui_to_oth # << >>
  /\ Head(gui_to_oth) = "End"
  /\ gui_to_oth' = Tail(gui_to_oth)
  /\ pc' = "quit"
  /\ UNCHANGED <<kind, board, possible_moves, playing_colour, gen, saved, free, search,
                 oth_to_gui, queue, oth_to_network, ai_tup, result, self_search_dict, tier, net, heap>>
  /\ UNCHANGED loadVars
  /\ UNCHANGED viewerVars

\* A click arrives at a worker that waits in get_pos with nothing else on the
\* queue: can_be_placed refuses it and the loop asks again, or it is saved and
\* placed
Click(pos) ==
  /\ kind # "NetworkVersus"
  /\ pc = "get_pos"
  /\ gui_to_oth = << >>
  /\ \/ /\ ~can_be_placed(possible_moves, pos, playing_colour)
        /\ UNCHANGED vars
     \/ /\ can_be_placed(possible_moves, pos, playing_colour)
        /\ SaveAndPlace(pos)
        /\ UNCHANGED searchVars

\* A click message arrives whose payload is some Python value: an exception
\* that leaves can_be_placed ends the worker thread, otherwise the loop goes on
\* as for a pair of integers
ClickValue(answer) ==
  /\ kind # "NetworkVersus"
  /\ pc = "get_pos"
  /\ gui_to_oth = << >>
  /\ LET tup == can_be_placed_value(possible_moves, answer, playing_colour)
     IN IF tup.raises # ""
          THEN /\ pc' = "raised"
               /\ UNCHANGED <<kind, playing_colour, gen, board, possible_moves, saved, free>>
               /\ UNCHANGED loadVars
               /\ UNCHANGED viewerVars
               /\ UNCHANGED ioVars
          ELSE IF ~tup.valid THEN UNCHANGED <<kind, playing_colour, gen, board, possible_moves,
                                              saved, free, pc, loadVars, viewerVars, ioVars>>
          ELSE SaveAndPlace(tup.pos)
  /\ UNCHANGED searchVars

\* ------------------------------------------------------------ the network game

\* The position get_pos of NetworkVersus returns for a message, None when the
\* message is dropped: a Click counts on the turn of the local colour, a
\* Net_Click on the turn of the other
Accepted(type, pos) ==
  IF type = "Click" /\ playing_colour = colour THEN pos
  ELSE IF type = "Net_Click" /\ playing_colour # colour THEN pos
  ELSE None

\* A Click of the GUI or a Net_Click of the network thread arrives at a
\* NetworkVersus worker that waits in get_pos: get_pos forwards an accepted
\* Click to the network thread before can_be_placed has seen it, and drops a
\* message that comes on the wrong turn; play then asks again or saves and
\* places
NetworkClick(type, pos) ==
  /\ kind = "NetworkVersus"
  /\ pc = "get_pos"
  /\ pos \in DOMAIN possible_moves[playing_colour] \cup OddInputs
  /\ gui_to_oth = << >>
  /\ oth_to_network' = IF type = "Click" /\ Accepted(type, pos) # None
                         THEN Append(oth_to_network, [type |-> "Net_Send", data |-> pos])
                         ELSE oth_to_network
  /\ IF Accepted(type, pos) # None /\ can_be_placed(possible_moves, pos, playing_colour)
       THEN /\ (free = 0 /\ Scripted(pos)) \/ free < MaxFree
            /\ free' = IF free = 0 /\ Scripted(pos) THEN 0 ELSE free + 1
            /\ saved' = Append(saved, SaveLine(pos))
            /\ board' = place(board, possible_moves, pos, playing_colour)
            /\ possible_moves' = board_change(board')
            /\ pc' = "play"
       ELSE /\ Len(oth_to_network) < MaxSent
            /\ UNCHANGED <<free, saved, board, possible_moves, pc>>
  /\ UNCHANGED <<kind, playing_colour, gen, gui_to_oth, oth_to_gui, queue>>
  /\ UNCHANGED loadVars
  /\ UNCHANGED viewerVars
  /\ UNCHANGED searchVars

\* Main.Network.on_end: the GUI puts Net_End on the queue to the network thread
\* and End on the queue to the worker
Network_on_end ==
  /\ kind = "NetworkVersus"
  /\ pc = "get_pos"
  /\ gui_to_oth = << >>
  /\ oth_to_network' = Append(oth_to_network, [type |-> "Net_End", data |-> None])
  /\ gui_to_oth' = <<"End">>
  /\ UNCHANGED <<kind, board, possible_moves, playing_colour, gen, pc, saved, free, oth_to_gui, queue>>
  /\ UNCHANGED loadVars
  /\ UNCHANGED viewerVars
  /\ UNCHANGED searchVars

\* ----------------------------------------------------------------- the search

\* A running minimax call: the state it was called with, the colour that moves
\* there and the lookahead left
Frame(st, c, lookahead) ==
  [board |-> st.board, hash_num |-> st.hash_num, possible_moves |-> st.possible_moves,
   colour |-> c, lookahead |-> lookahead]

\* ai_play calls minimax or MTDF on get_hash_version() with White to move
SearchRoot(lookahead) ==
  /\ pc = "ai_play"
  /\ search = << >>
  /\ free + lookahead <= MaxDepth
  /\ search' = <<Frame(get_hash_version(board, possible_moves), "W", lookahead)>>
  /\ UNCHANGED <<kind, board, possible_moves, playing_colour, gen, pc, saved, free, ai_tup, result, self_search_dict, tier, net, heap>>
  /\ UNCHANGED loadVars
  /\ UNCHANGED viewerVars
  /\ UNCHANGED ioVars

\* The loop body of minimax: deepcopy the state, place possible_action on the
\* copy and call minimax on it
SearchExpand(possible_action) ==
  /\ search # << >>
  /\ LET top == search[Len(search)]
     IN /\ possible_action \in DOMAIN top.possible_moves[top.colour]
        /\ ~check_if_terminal(top)
        /\ top.lookahead > 0
        /\ LET new_board == HashedPlace([board |-> top.board, hash_num |-> top.hash_num,
                                         possible_moves |-> top.possible_moves],
                                        possible_action, top.colour)
               next_colour == IF ChildMaximising(top.colour, new_board) THEN "W" ELSE "B"
           IN search' = Append(search, Frame(new_board, next_colour, top.lookahead - 1))
  /\ UNCHANGED <<kind, board, possible_moves, playing_colour, gen, pc, saved, free, ai_tup, result, self_search_dict, tier, net, heap>>
  /\ UNCHANGED loadVars
  /\ UNCHANGED viewerVars
  /\ UNCHANGED ioVars

\* A minimax call below the root returns
SearchReturn ==
  /\ Len(search) > 1
  /\ search' = SubSeq(search, 1, Len(search) - 1)
  /\ UNCHANGED <<kind, board, possible_moves, playing_colour, gen, pc, saved, free, ai_tup, result, self_search_dict, tier, net, heap>>
  /\ UNCHANGED loadVars
  /\ UNCHANGED viewerVars
  /\ UNCHANGED ioVars

\* The root call returns and ai_play returns best_move to AI.play. The move is
\* left open here: any key of the legal-move set of White.
ai_play(best_move) ==
  /\ pc = "ai_play"
  /\ Len(search) = 1
  /\ best_move \in DOMAIN possible_moves[ai_colour]
  /\ search' = << >>
  /\ ai_tup' = best_move
  /\ pc' = "ai_place"
  /\ UNCHANGED <<kind, board, possible_moves, playing_colour, gen, saved, free, result, self_search_dict, tier, net, heap>>
  /\ UNCHANGED loadVars
  /\ UNCHANGED viewerVars
  /\ UNCHANGED ioVars

\* save(pos), then place(pos, playing_colour) for a pos that is no key of
\* possible_moves[playing_colour]: the piece is put on the board, the lookup
\* of flip_line raises KeyError and the worker ends before board_change
KeyErrorInPlace(pos) ==
  /\ saved' = Append(saved, SaveLine(pos))
  /\ board' = [board EXCEPT ![pos[2]][pos[1]] = playing_colour]
  /\ pc' = "raised"
  /\ UNCHANGED <<kind, playing_colour, gen, possible_moves, free>>
  /\ UNCHANGED loadVars
  /\ UNCHANGED viewerVars
  /\ UNCHANGED ioVars

\* The AI branch of AI.play saves and places the move of ai_play, without a look
\* at the queue from the GUI and without a call of can_be_placed
AiMove ==
  /\ pc = "ai_place"
  /\ IF ai_tup \in DOMAIN possible_moves[playing_colour]
       THEN SaveAndPlace(ai_tup)
       ELSE KeyErrorInPlace(ai_tup)
  /\ ai_tup' = << >>
  /\ UNCHANGED <<search, result, self_search_dict, tier, net, heap>>

\* The search methods of AI called on the board of a resumed game in which
\* White is to move. The game is not followed beyond the call.
CallVars == <<kind, board, possible_moves, playing_colour, gen, saved, free, search, ai_tup,
              self_search_dict, tier, net, heap, loadVars, viewerVars, ioVars>>

\* AI.minimax with the full window and an empty table, as ai_play calls it with
\* lookahead 1 when difficulty is None
call_minimax(lookahead) ==
  /\ kind = "LoadAI"
  /\ pc = "ai_play"
  /\ result' = [call |-> "minimax", lookahead |-> lookahead,
                returned |-> minimax(get_hash_version(board, possible_moves), neg_inf, inf,
                                     TRUE, TRUE, lookahead, {})]
  /\ pc' = "returned"
  /\ UNCHANGED CallVars

\* AI.minimax called on the board of the game with either value of
\* maximising_player, whichever colour can move
call_minimax_as(maximising_player, lookahead) ==
  /\ kind = "LoadAI"
  /\ pc = "ai_play"
  /\ result' = [call |-> "minimax_as", maximising_player |-> maximising_player, lookahead |-> lookahead,
                returned |-> minimax(get_hash_version(board, possible_moves), neg_inf, inf,
                                     maximising_player, TRUE, lookahead, {})]
  /\ pc' = "returned"
  /\ UNCHANGED CallVars

\* AI.MTDF with an empty table
call_MTDF(first_guess, lookahead) ==
  /\ kind = "LoadAI"
  /\ pc = "ai_play"
  /\ result' = [call |-> "MTDF", first_guess |-> first_guess, lookahead |-> lookahead,
                returned |-> MTDF(get_hash_version(board, possible_moves), first_guess, lookahead, {})]
  /\ pc' = "returned"
  /\ UNCHANGED CallVars

\* AI.iterative_deepening as ai_play calls it, with the empty search_dict of a
\* new AI and a search_time that does not run out
call_iterative_deepening(difficulty) ==
  /\ kind = "LoadAI"
  /\ pc = "ai_play"
  /\ result' = [call |-> "iterative_deepening", difficulty |-> difficulty,
                returned |-> iterative_deepening(get_hash_version(board, possible_moves), difficulty, {})]
  /\ pc' = "returned"
  /\ UNCHANGED CallVars

\* AI.iterative_deepening on an empty table, with the time budget found spent
\* after the search of depth expires (0: never within the loop)
call_iterative_deepening_until(difficulty, expires) ==
  /\ kind = "LoadAI"
  /\ pc = "ai_play"
  /\ result' = [call |-> "iterative_deepening_until", difficulty |-> difficulty, expires |-> expires,
                returned |-> iterative_deepening_until(get_hash_version(board, possible_moves),
                                                       difficulty, {}, expires)]
  /\ pc' = "returned"
  /\ UNCHANGED CallVars

\* ------------------------------------------- the objects of a search by reference

\* A HashedLocalVersus object of a running search: its own board and hash, and
\* the dictionary self.possible_moves refers to, as an index of heap. at is
\* "call" for the board a call of minimax runs on and "copied" for a new_board
\* between deepcopy(board) and new_board.place(...)
RefFrame(b, hash_num, ref, c, lookahead, at) ==
  [board |-> b, hash_num |-> hash_num, ref |-> ref, colour |-> c, lookahead |-> lookahead, at |-> at]

\* The search state of an object, its dictionary looked up
Deref(h, fr) == [board |-> fr.board, hash_num |-> fr.hash_num, possible_moves |-> h[fr.ref]]

\* A board_change that clears and fills the dictionary the object refers to
RefBoardChange_in_place(h, ref, b) == [heap |-> [h EXCEPT ![ref] = board_change(b)], ref |-> ref]

\* board_change from an object: self.possible_moves = {"W": {}, "B": {}} binds
\* the attribute to a new dictionary, which the loops then fill
RefBoardChange(h, ref, b) == [heap |-> Append(h, board_change(b)), ref |-> Len(h) + 1]

\* get_hash_version: a deep copy of the board of the game, and the
\* possible_moves dictionary of the game itself
RefRoot(lookahead) ==
  /\ kind = "LoadAI"
  /\ pc = "ai_play"
  /\ search = << >>
  /\ heap = << >>
  /\ heap' = <<possible_moves>>
  /\ search' = <<RefFrame(board, ZobristRows(board, 0), 1, "W", lookahead, "call")>>
  /\ UNCHANGED <<kind, board, possible_moves, playing_colour, gen, pc, saved, free, ai_tup, result,
                 self_search_dict, tier, net>>
  /\ UNCHANGED loadVars
  /\ UNCHANGED viewerVars
  /\ UNCHANGED ioVars

\* new_board = deepcopy(board): HashedLocalVersus.__deepcopy__ copies
\* board_state deeply and hands self.possible_moves on as it is
RefDeepcopy ==
  /\ search # << >>
  /\ heap # << >>
  /\ LET top == search[Len(search)]
     IN /\ top.at = "call"
        /\ top.lookahead > 0
        /\ ~check_if_terminal(Deref(heap, top))
        /\ DOMAIN heap[top.ref][top.colour] # {}
        /\ search' = Append(search, [top EXCEPT !.at = "copied"])
  /\ UNCHANGED <<kind, board, possible_moves, playing_colour, gen, pc, saved, free, ai_tup, result,
                 self_search_dict, tier, net, heap>>
  /\ UNCHANGED loadVars
  /\ UNCHANGED viewerVars
  /\ UNCHANGED ioVars

\* new_board.place(possible_action, colour), then the call of minimax on
\* new_board: the flips are read from the dictionary new_board refers to, and
\* board_change ends the placement
RefPlace(possible_action) ==
  /\ search # << >>
  /\ heap # << >>
  /\ LET top == search[Len(search)]
         placed == HashedPlace(Deref(heap, top), possible_action, top.colour)
         changed == RefBoardChange(heap, top.ref, placed.board)
         new_board == [placed EXCEPT !.possible_moves = changed.heap[changed.ref]]
         next_colour == IF ChildMaximising(top.colour, new_board) THEN "W" ELSE "B"
     IN /\ top.at = "copied"
        /\ possible_action \in DOMAIN heap[top.ref][top.colour]
        /\ heap' = changed.heap
        /\ search' = [search EXCEPT ![Len(search)] =
                        RefFrame(placed.board, placed.hash_num, changed.ref, next_colour,
                                 top.lookahead - 1, "call")]
  /\ UNCHANGED <<kind, board, possible_moves, playing_colour, gen, pc, saved, free, ai_tup, result,
                 self_search_dict, tier, net>>
  /\ UNCHANGED loadVars
  /\ UNCHANGED viewerVars
  /\ UNCHANGED ioVars

\* A call of minimax below the root returns: new_board is dropped, and with it
\* the dictionary no other object refers to
RefReturn ==
  /\ Len(search) > 1
  /\ heap # << >>
  /\ LET top == search[Len(search)]
     IN /\ top.at = "call"
        /\ search' = SubSeq(search, 1, Len(search) - 1)
        /\ heap' = IF top.ref = Len(heap) /\ \A i \in 1 .. Len(search) - 1 : search[i].ref # top.ref
                     THEN SubSeq(heap, 1, Len(heap) - 1)
                     ELSE heap
  /\ UNCHANGED <<kind, board, possible_moves, playing_colour, gen, pc, saved, free, ai_tup, result,
                 self_search_dict, tier, net>>
  /\ UNCHANGED loadVars
  /\ UNCHANGED viewerVars
  /\ UNCHANGED ioVars

\* The call at the root returns: the search of ai_play is complete
RefDone ==
  /\ Len(search) = 1
  /\ heap # << >>
  /\ pc = "ai_play"
  /\ search[1].at = "call"
  /\ search' = << >>
  /\ pc' = "returned"
  /\ UNCHANGED <<kind, board, possible_moves, playing_colour, gen, saved, free, ai_tup, result,
                 self_search_dict, tier, net, heap>>
  /\ UNCHANGED loadVars
  /\ UNCHANGED viewerVars
  /\ UNCHANGED ioVars

\* DIFFICULTY_TO_AI_CONFIG: (difficulty, search_time) of a tier; timed is
\* whether difficulty is not None
DIFFICULTY_TO_AI_CONFIG ==
  [Easy |-> [timed |-> FALSE, difficulty |-> 0, search_time |-> 0],
   Normal |-> [timed |-> TRUE, difficulty |-> 5, search_time |-> 3],
   Hard |-> [timed |-> TRUE, difficulty |-> 20, search_time |-> 3],
   Insane |-> [timed |-> TRUE, difficulty |-> 24, search_time |-> 10]]

\* The dict comprehension of ai_play: the entries of depth 3 or more, two
\* plies shallower
Decay_all(searched_moves) == searched_moves

Decay(searched_moves) ==
  {[e EXCEPT !.depth = e.depth - 2] : e \in {v \in searched_moves : v.depth >= 3}}

\* AI.ai_play of a tier without difficulty: minimax of depth 1 on a new table
easy_ai_play ==
  /\ kind = "LoadAI"
  /\ pc = "ai_play"
  /\ ~DIFFICULTY_TO_AI_CONFIG[tier].timed
  /\ \E r \in {minimax(get_hash_version(board, possible_moves), neg_inf, inf, TRUE, TRUE, 1, {})} :
        /\ result' = [call |-> "ai_play", expires |-> 0, before |-> self_search_dict,
                      search_dict |-> {}, raised |-> r.raised, move |-> r.action,
                      depths |-> << >>, passes |-> << >>, ended |-> TRUE]
        /\ pc' = IF r.raised THEN "raised" ELSE "ai_place"
        /\ ai_tup' = IF r.raised THEN ai_tup ELSE r.action
  /\ UNCHANGED <<kind, board, possible_moves, playing_colour, gen, saved, free, search,
                 self_search_dict, tier, net, heap>>
  /\ UNCHANGED loadVars
  /\ UNCHANGED viewerVars
  /\ UNCHANGED ioVars

\* AI.ai_play of a tier with a difficulty: iterative_deepening on
\* self.search_dict, which minimax writes in place, then the decay of the
\* table. expires is the depth after which the time budget is found spent.
timed_ai_play(expires) ==
  /\ kind = "LoadAI"
  /\ pc = "ai_play"
  /\ DIFFICULTY_TO_AI_CONFIG[tier].timed
  /\ \E r \in {iterative_deepening_until(get_hash_version(board, possible_moves),
                                         DIFFICULTY_TO_AI_CONFIG[tier].difficulty,
                                         self_search_dict, expires)} :
        /\ result' = [call |-> "ai_play", expires |-> expires, before |-> self_search_dict,
                      search_dict |-> r.search_dict, raised |-> r.raised, move |-> r.move,
                      depths |-> r.depths, passes |-> r.passes, ended |-> r.ended]
        /\ pc' = IF r.raised THEN "raised" ELSE "ai_place"
        /\ ai_tup' = IF r.raised THEN ai_tup ELSE r.move
        /\ self_search_dict' = IF r.raised THEN r.search_dict ELSE Decay(r.search_dict)
  /\ UNCHANGED <<kind, board, possible_moves, playing_colour, gen, saved, free, search, tier, net, heap>>
  /\ UNCHANGED loadVars
  /\ UNCHANGED viewerVars
  /\ UNCHANGED ioVars

\* The windows minimax is called with: the full one of the depth-1 search of
\* ai_play and a window of width one as MTDF passes it (first guess 0)
Windows == {[alpha |-> neg_inf, beta |-> inf], [alpha |-> <<-1, 1>>, beta |-> <<0, 1>>]}

\* AI.minimax on the table an earlier call of minimax on the same board has
\* left, as the passes of MTDF, the depths of iterative_deepening and the
\* turns of a game that keep search_dict make it
call_minimax_table(first, first_window, lookahead, window) ==
  /\ kind = "LoadAI"
  /\ pc = "ai_play"
  /\ LET board_ == get_hash_version(board, possible_moves)
         search_dict == minimax(board_, first_window.alpha, first_window.beta, TRUE, TRUE, first,
                                {}).searched_moves
     IN result' = [call |-> "minimax_table", lookahead |-> lookahead, alpha |-> window.alpha,
                   beta |-> window.beta, search_dict |-> search_dict,
                   returned |-> minimax(board_, window.alpha, window.beta, TRUE, TRUE, lookahead,
                                        search_dict)]
  /\ pc' = "returned"
  /\ UNCHANGED CallVars

\* ----------------------------------------------------------------- the viewer

\* An update_board_state that leaves out board_change
update_board_state_stale(b, c) == [colour |-> c, board |-> b, possible_moves |-> possible_moves]

\* update_board_state(board, colour): the fields it sets
update_board_state(b, c) == [colour |-> c, board |-> b, possible_moves |-> board_change(b)]

\* A load_othello that reports Loader whatever load did
load_othello_Loader(raised) == "Loader"

\* load_othello: the report for a game whose load raised BoardError, or did not
load_othello(raised) == IF raised THEN "Fail" ELSE "Loader"

\* One pass of the for loop of SavedGamesLoader.load; when the loop is left the
\* last state is appended and current_line is set to max_line. load_othello
\* reports when load has returned or raised BoardError.
ViewerLoadStep ==
  /\ kind = "SavedGamesLoader"
  /\ pc = "load"
  /\ LET g == GenNext(gen, possible_moves)
         leave(states, c) ==
           /\ previous_states' = Append(states, <<board, c>>)
           /\ colour' = c
           /\ current_line' = max_line
           /\ pc' = "view"
           /\ queue' = Append(queue, load_othello(FALSE))
           /\ UNCHANGED <<board, possible_moves, gen, load_count>>
     IN IF load_count >= Len(commands) THEN leave(previous_states, colour)
        ELSE IF g.at = "end" THEN leave(previous_states, colour)
        ELSE LET c == Yielded(g)
                 states == Append(previous_states, <<board, c>>)
             IN IF load_count = seek_amount THEN leave(states, c)
                ELSE LET tup == get_pos_from_file(commands[load_count + 1])
                     IN IF ~can_be_placed(possible_moves, tup, c)
                          THEN /\ pc' = "error"
                               /\ queue' = Append(queue, load_othello(TRUE))
                               /\ colour' = c
                               /\ gen' = g
                               /\ previous_states' = states
                               /\ load_count' = load_count + 1
                               /\ UNCHANGED <<board, possible_moves, current_line>>
                          ELSE /\ colour' = c
                               /\ gen' = g
                               /\ previous_states' = states
                               /\ load_count' = load_count + 1
                               /\ board' = place(board, possible_moves, tup, c)
                               /\ possible_moves' = board_change(board')
                               /\ pc' = "load"
                               /\ UNCHANGED <<current_line, queue>>
  /\ UNCHANGED <<kind, playing_colour, saved, free, commands, line_count, search, max_line,
                 gui_to_oth, oth_to_gui, oth_to_network, ai_tup, result, self_search_dict, tier, net, heap>>

\* What a button of the viewer gets from the method it calls: the board, or the
\* exception the method raises
ViewerResult(method, exception) == [call |-> method, raised |-> exception]

\* line_load_forwards; at the end it raises BoardError and changes nothing. The
\* line is counted before previous_states is read: a list that is too short
\* raises IndexError after the count
line_load_forwards ==
  /\ kind = "SavedGamesLoader"
  /\ pc = "view"
  /\ IF current_line < max_line
       THEN IF current_line + 2 \in DOMAIN previous_states
              THEN LET upd == update_board_state(previous_states[current_line + 2][1],
                                                 previous_states[current_line + 2][2])
                   IN /\ current_line' = current_line + 1
                      /\ colour' = upd.colour
                      /\ board' = upd.board
                      /\ possible_moves' = upd.possible_moves
                      /\ result' = ViewerResult("line_load_forwards", "none")
                      /\ pc' = pc
              ELSE /\ current_line' = current_line + 1
                   /\ result' = ViewerResult("line_load_forwards", "IndexError")
                   /\ pc' = "raised"
                   /\ UNCHANGED <<colour, board, possible_moves>>
       ELSE /\ result' = ViewerResult("line_load_forwards", "BoardError")
            /\ UNCHANGED <<current_line, colour, board, possible_moves, pc>>
  /\ UNCHANGED <<kind, playing_colour, gen, saved, free, search, previous_states, max_line, ai_tup, self_search_dict, tier, net, heap>>
  /\ UNCHANGED loadVars
  /\ UNCHANGED ioVars

\* A line_load_backwards that reads previous_states before it steps back
line_load_backwards_late ==
  /\ kind = "SavedGamesLoader"
  /\ pc = "view"
  /\ IF current_line > 0
       THEN IF current_line + 1 \in DOMAIN previous_states
              THEN LET upd == update_board_state(previous_states[current_line + 1][1],
                                                 previous_states[current_line + 1][2])
                   IN /\ current_line' = current_line - 1
                      /\ colour' = upd.colour
                      /\ board' = upd.board
                      /\ possible_moves' = upd.possible_moves
                      /\ result' = ViewerResult("line_load_backwards", "none")
                      /\ pc' = pc
              ELSE /\ current_line' = current_line - 1
                   /\ result' = ViewerResult("line_load_backwards", "IndexError")
                   /\ pc' = "raised"
                   /\ UNCHANGED <<colour, board, possible_moves>>
       ELSE /\ result' = ViewerResult("line_load_backwards", "BoardError")
            /\ UNCHANGED <<current_line, colour, board, possible_moves, pc>>
  /\ UNCHANGED <<kind, playing_colour, gen, saved, free, search, previous_states, max_line, ai_tup, self_search_dict, tier, net, heap>>
  /\ UNCHANGED loadVars
  /\ UNCHANGED ioVars

\* line_load_backwards; at the start it raises BoardError and changes nothing
line_load_backwards ==
  /\ kind = "SavedGamesLoader"
  /\ pc = "view"
  /\ IF current_line > 0
       THEN IF current_line \in DOMAIN previous_states
              THEN LET upd == update_board_state(previous_states[current_line][1],
                                                 previous_states[current_line][2])
                   IN /\ current_line' = current_line - 1
                      /\ colour' = upd.colour
                      /\ board' = upd.board
                      /\ possible_moves' = upd.possible_moves
                      /\ result' = ViewerResult("line_load_backwards", "none")
                      /\ pc' = pc
              ELSE /\ current_line' = current_line - 1
                   /\ result' = ViewerResult("line_load_backwards", "IndexError")
                   /\ pc' = "raised"
                   /\ UNCHANGED <<colour, board, possible_moves>>
       ELSE /\ result' = ViewerResult("line_load_backwards", "BoardError")
            /\ UNCHANGED <<current_line, colour, board, possible_moves, pc>>
  /\ UNCHANGED <<kind, playing_colour, gen, saved, free, search, previous_states, max_line, ai_tup, self_search_dict, tier, net, heap>>
  /\ UNCHANGED loadVars
  /\ UNCHANGED ioVars

\* ------------------------------------------------------------ specification

\* The games two players play at one computer, fresh or loaded from a save file,
\* and the viewer of saved games
InitGame == InitLocalVersus \/ InitLoadLocalVersus \/ InitSavedGamesLoader

NextGame ==
  \/ LoadStep
  \/ NextColour
  \/ on_end
  \/ get_pos_End
  \/ \E pos \in ClickInputs : Click(pos)
  \/ \E answer \in ClickValues : ClickValue(answer)
  \/ ViewerLoadStep
  \/ line_load_forwards
  \/ line_load_backwards

SpecGame == InitGame /\ [][NextGame]_vars

\* The game against the AI, with the searches of ai_play
NextAI ==
  \/ NextColour
  \/ on_end
  \/ get_pos_End
  \/ \E pos \in ClickInputs : Click(pos)
  \/ \E answer \in ClickValues : ClickValue(answer)
  \/ \E lookahead \in 1 .. MaxDepth : SearchRoot(lookahead)
  \/ \E possible_action \in Positions : SearchExpand(possible_action)
  \/ SearchReturn
  \/ \E best_move \in Positions : ai_play(best_move)
  \/ AiMove

SpecAI == InitAI /\ [][NextAI]_vars

\* A game against the AI resumed from a save file, up to the first search
NextSearch ==
  \/ LoadStep
  \/ NextColour
  \/ \E lookahead \in 1 .. MaxDepth : call_minimax(lookahead)
  \/ \E first_guess \in FirstGuesses, lookahead \in 1 .. MaxDepth : call_MTDF(first_guess, lookahead)
  \/ \E difficulty \in 2 .. MaxDepth + 1 : call_iterative_deepening(difficulty)
  \/ \E lookahead \in 1 .. MaxDepth : call_minimax_as(FALSE, lookahead)

SpecSearch == InitLoadAI /\ [][NextSearch]_vars

\* Iterative deepening one depth further than the other searches, so that a
\* depth meets the result of the depth two below it
NextDeepening ==
  \/ LoadStep
  \/ NextColour
  \/ \E difficulty \in 2 .. MaxDepth + 2, expires \in 0 .. MaxDepth :
       call_iterative_deepening_until(difficulty, expires)

SpecDeepening == InitLoadAI /\ [][NextDeepening]_vars

\* A game of 54 placements without a pass after which Black has no legal
\* move, White has five and six squares are empty
TimedGame ==
  << <<3, 2>>, <<2, 4>>, <<4, 5>>, <<4, 2>>, <<5, 2>>, <<5, 6>>, <<2, 2>>, <<6, 1>>, <<6, 2>>, <<5, 4>>,
     <<6, 5>>, <<3, 1>>, <<4, 0>>, <<1, 2>>, <<4, 7>>, <<3, 0>>, <<2, 3>>, <<6, 4>>, <<1, 1>>, <<5, 1>>,
     <<1, 3>>, <<6, 6>>, <<2, 0>>, <<0, 3>>, <<7, 4>>, <<0, 0>>, <<1, 0>>, <<6, 3>>, <<2, 1>>, <<0, 2>>,
     <<1, 4>>, <<0, 4>>, <<1, 5>>, <<0, 1>>, <<2, 5>>, <<1, 6>>, <<6, 0>>, <<6, 7>>, <<5, 5>>, <<5, 3>>,
     <<7, 1>>, <<7, 0>>, <<3, 5>>, <<4, 6>>, <<0, 5>>, <<0, 6>>, <<7, 3>>, <<5, 0>>, <<7, 6>>, <<7, 5>>,
     <<3, 6>>, <<4, 1>>, <<0, 7>>, <<2, 7>> >>

TimedSaveFiles == {SaveFile(TimedGame)}

\* Plies of a save file after which a game with timed searches is resumed: the
\* last MaxDepth ones
TimedResumePoints(file) == {k \in 0 .. Len(file) : k >= Len(file) - MaxDepth}

\* The tiers a game against the AI is started with
Tiers == {"Easy", "Normal"}

\* The depths after which a timed search finds its budget spent (0: never)
ExpiryDepths == {0, 1}

\* LoadAI.__init__ with a difficulty, up to load()
InitTimed ==
  /\ kind = "LoadAI"
  /\ InitOthello
  /\ playing_colour = "B"
  /\ gen = end_game_iterator("B")
  /\ pc = "load"
  /\ saved = << >>
  /\ free = 0
  /\ commands \in TimedSaveFiles
  /\ line_count \in TimedResumePoints(commands)
  /\ load_count = 0
  /\ search = << >>
  /\ NoViewer
  /\ gui_to_oth = << >>
  /\ oth_to_gui = << >>
  /\ queue = << >>
  /\ oth_to_network = << >>
  /\ ai_tup = << >>
  /\ result = NoResult
  /\ self_search_dict = {}
  /\ tier \in Tiers
  /\ net = << >>
  /\ heap = << >>

\* A resumed game against the AI with the searches of ai_play
NextTimed ==
  \/ LoadStep
  \/ NextColour
  \/ \E pos \in ClickInputs : Click(pos)
  \/ easy_ai_play
  \/ \E expires \in ExpiryDepths : timed_ai_play(expires)
  \/ AiMove

SpecTimed == InitTimed /\ [][NextTimed]_vars

\* The objects of a search and the dictionaries they refer to
NextCopies ==
  \/ LoadStep
  \/ NextColour
  \/ \E lookahead \in 1 .. MaxDepth : RefRoot(lookahead)
  \/ RefDeepcopy
  \/ \E possible_action \in Positions : RefPlace(possible_action)
  \/ RefReturn
  \/ RefDone

SpecCopies == InitLoadAI /\ [][NextCopies]_vars

\* The search on a table that is not empty
NextTable ==
  \/ LoadStep
  \/ NextColour
  \/ \E first \in 1 .. MaxDepth, first_window \in Windows, lookahead \in 1 .. MaxDepth, window \in Windows :
       call_minimax_table(first, first_window, lookahead, window)

SpecTable == InitLoadAI /\ [][NextTable]_vars

\* A game over the network, seen from one of its two workers
NextNetwork ==
  \/ NextColour
  \/ Network_on_end
  \/ get_pos_End
  \/ \E type \in {"Click", "Net_Click"}, pos \in ClickInputs : NetworkClick(type, pos)

SpecNetwork == InitNetworkVersus /\ [][NextNetwork]_vars

\* The games of the three modes: local, against the AI and over the network
InitModes == InitLocalVersus \/ InitAI \/ InitNetworkVersus

NextModes == NextAI \/ NextNetwork

SpecModes == InitModes /\ [][NextModes]_vars

\* Every kind of game object
Next ==
  \/ LoadStep
  \/ NextColour
  \/ on_end
  \/ get_pos_End
  \/ \E pos \in ClickInputs : Click(pos)
  \/ \E answer \in ClickValues : ClickValue(answer)
  \/ \E lookahead \in 1 .. MaxDepth : SearchRoot(lookahead)
  \/ \E possible_action \in Positions : SearchExpand(possible_action)
  \/ SearchReturn
  \/ \E best_move \in Positions : ai_play(best_move)
  \/ AiMove
  \/ ViewerLoadStep
  \/ line_load_forwards
  \/ line_load_backwards

Spec == Init /\ [][Next]_vars

\* ------------------------------------------------------- the live reference

\* An uninterrupted game that plays the first k lines of a save file from the
\* start position, each for the colour the Turn Controller yields for the ply
RECURSIVE LiveReplay(_, _)
LiveReplay(file, k) ==
  IF k = 0
    THEN [board |-> InitBoard, possible_moves |-> board_change(InitBoard),
          gen |-> end_game_iterator("B")]
  ELSE LET before == LiveReplay(file, k - 1)
           g == GenNext(before.gen, before.possible_moves)
           b == place(before.board, before.possible_moves,
                      get_pos_from_file(file[k]), Yielded(g))
       IN [board |-> b, possible_moves |-> board_change(b), gen |-> g]

\* The colour the Turn Controller yields for ply k + 1 of that game (None at its end)
LiveColour(file, k) ==
  LET live == LiveReplay(file, k)
  IN Yielded(GenNext(live.gen, live.possible_moves))

\* A play loop waits for the move of the colour its generator has just yielded
AtYield == pc \in {"get_pos", "ai_play"}

NoMoves(pm, c) == DOMAIN pm[c] = {}

\* ------------------------------------------------------------------ claims

\* C1, as the claim states it: when a play loop is at a yield of the colour its
\* generator yielded just before, the other colour has no legal move on the board
\* of that moment.
C1_SameColourOnlyOnPass ==
  (AtYield /\ gen.prev = playing_colour) => NoMoves(possible_moves, FLIP_RULE[playing_colour])

\* C2: whenever the Turn Controller is advanced, it ends exactly when neither
\* colour has a legal move on the board of that moment, and a colour it yields
\* has at least one legal move then.
C2_EndsIffNoMoves ==
  [][(gen' # gen /\ gen'.at # "start")
       => /\ (gen'.at = "end") <=> (NoMoves(possible_moves, "B") /\ NoMoves(possible_moves, "W"))
          /\ (gen'.at # "end") => ~NoMoves(possible_moves, Yielded(gen'))]_vars

\* A game of nine plies has ended: the generator has returned with discs of one
\* colour only on the board
C2_Witness ==
  /\ pc = "done"
  /\ gen.at = "end"
  /\ Len(saved) = 9
  /\ count_pieces(board)["W"] = 0

\* The board of the minimax call that runs last, or the live board
SearchedBoard == IF search = << >> THEN board ELSE search[Len(search)].board

Cells(b, c) == {p \in Positions : b[p[2]][p[1]] = c}

\* C3: on the live board and on the board of every search state, the counts of
\* count_pieces sum to 64 and the counts of W and of B are the numbers of cells
\* that hold that colour.
C3_CountsAddUp ==
  \A b \in {board} \cup {search[i].board : i \in 1 .. Len(search)} :
    LET count == count_pieces(b)
    IN /\ count["W"] + count["B"] + count["E"] = BOARD_SIZE * BOARD_SIZE
       /\ count["W"] = Cardinality(Cells(b, "W"))
       /\ count["B"] = Cardinality(Cells(b, "B"))

\* A search two placements below a root that was reached by three placements
C3_Witness ==
  /\ Len(search) = 3
  /\ Cardinality(Cells(board, "E")) = 57
  /\ Cardinality(Cells(search[3].board, "E")) = 55

\* Walking from pos along d passes over one or more cells of the opposite colour
\* and then reaches a cell of colour c, before an empty cell or the edge
HoldsFlipLine(b, pos, c, d) ==
  /\ InRange(pos[1] + d[1], pos[2] + d[2])
  /\ b[pos[2] + d[2]][pos[1] + d[1]] = FLIP_RULE[c]
  /\ \E n \in 2 .. (BOARD_SIZE - 1) :
       /\ InRange(pos[1] + n * d[1], pos[2] + n * d[2])
       /\ b[pos[2] + n * d[2]][pos[1] + n * d[1]] = c
       /\ \A m \in 1 .. (n - 1) : b[pos[2] + m * d[2]][pos[1] + m * d[1]] = FLIP_RULE[c]

Directions == {FLIP_LINES[k] : k \in 1 .. Len(FLIP_LINES)}

\* C4: for the board the game or its search has reached, and each colour,
\* board_change gives a cell as key exactly when it is empty and a direction holds
\* a flip line, and lists for it exactly those directions, each once.
C4_LegalMovesExact ==
    LET b == SearchedBoard
        pm == board_change(b)
    IN \A c \in {"W", "B"} : \A pos \in Positions :
         LET dirs == {d \in Directions : HoldsFlipLine(b, pos, c, d)}
         IN /\ pos \in DOMAIN pm[c] <=> (b[pos[2]][pos[1]] = "E" /\ dirs # {})
            /\ pos \in DOMAIN pm[c] =>
                 /\ Len(pm[c][pos]) = Cardinality(dirs)
                 /\ {pm[c][pos][k] : k \in 1 .. Len(pm[c][pos])} = dirs

\* A board on which a move flips along two directions, one of them over a line
\* of two discs
C4_Witness ==
  \E c \in {"W", "B"} : \E pos \in DOMAIN possible_moves[c] :
    /\ Len(possible_moves[c][pos]) >= 2
    /\ \E k \in 1 .. Len(possible_moves[c][pos]) :
         LineEnd(board, pos, c, possible_moves[c][pos][k], 1) >= 3

\* The number of steps from pos along d to the first cell of colour c
FirstSame(b, pos, c, d) ==
  CHOOSE n \in 1 .. (BOARD_SIZE - 1) :
    /\ InRange(pos[1] + n * d[1], pos[2] + n * d[2])
    /\ b[pos[2] + n * d[2]][pos[1] + n * d[1]] = c
    /\ \A m \in 1 .. (n - 1) : b[pos[2] + m * d[2]][pos[1] + m * d[1]] # c

\* The cells strictly between pos and the first cell of colour c along the
\* directions recorded for the move
Between(b, pm, pos, c) ==
  UNION {{<<pos[1] + m * pm[c][pos][k][1], pos[2] + m * pm[c][pos][k][2]>> :
            m \in 1 .. (FirstSame(b, pos, c, pm[c][pos][k]) - 1)} :
         k \in 1 .. Len(pm[c][pos])}

\* The effect the claim gives place(pos, c) on the board b with the legal-move
\* sets pm: after is the board it leaves
PlaceFrame(b, pm, pos, c, after) ==
  LET flipped == Between(b, pm, pos, c)
  IN /\ after[pos[2]][pos[1]] = c
     /\ \A q \in flipped : b[q[2]][q[1]] = FLIP_RULE[c] /\ after[q[2]][q[1]] = c
     /\ \A q \in Positions \ (flipped \cup {pos}) : after[q[2]][q[1]] = b[q[2]][q[1]]
     /\ flipped # {}
     /\ Cardinality(Cells(after, "E")) = Cardinality(Cells(b, "E")) - 1

\* C5: every placement of a play loop, a load or a search has the effect of
\* PlaceFrame: the cell gets the colour, the cells between it and the first disc
\* of the colour along each recorded direction turn from the opposite colour to
\* the colour, no other cell changes, one more cell is occupied and a disc is flipped.
C5_PlaceFrame ==
  [][/\ saved' # saved =>
          PlaceFrame(board, possible_moves, get_pos_from_file(saved'[Len(saved')]),
                     playing_colour', board')
     /\ (search # << >> /\ Len(search') > Len(search)) =>
          LET top == search[Len(search)]
              child == search'[Len(search')]
          IN \E pos \in DOMAIN top.possible_moves[top.colour] :
               /\ top.board[pos[2]][pos[1]] = "E"
               /\ child.board[pos[2]][pos[1]] # "E"
               /\ PlaceFrame(top.board, top.possible_moves, pos, top.colour, child.board)]_vars

\* A play loop has placed a disc that flipped along two or more directions
C5_Witness ==
  /\ pc = "play"
  /\ saved # << >>
  /\ LET before == LiveReplay(saved, Len(saved) - 1)
         c == Yielded(GenNext(before.gen, before.possible_moves))
         pos == get_pos_from_file(saved[Len(saved)])
     IN /\ pos \in DOMAIN before.possible_moves[c]
        /\ Len(before.possible_moves[c][pos]) >= 2
        /\ board = place(before.board, before.possible_moves, pos, c)

\* C6: in every state the legal-move sets of the game object are the from-scratch
\* derivation on its board, and so are those of the search state that the last
\* placement of the search has left.
C6_NoStaleMoves ==
  /\ possible_moves = board_change(board)
  /\ search # << >> =>
       search[Len(search)].possible_moves = board_change(search[Len(search)].board)

\* The viewer has stepped back from the end of a game
C6_Witness ==
  /\ kind = "SavedGamesLoader"
  /\ pc = "view"
  /\ current_line = max_line - 1
  /\ board # InitBoard

\* The XOR over the 64 cells of the table entry of the cell's colour: bit
\* 3 * cell + index is set exactly when the cell holds the colour of that index
ZobristOf(b) ==
  [i \in HashBits |->
     IF XOR_INDICES[b[(i \div 3) \div BOARD_SIZE][(i \div 3) % BOARD_SIZE]] = i % 3 THEN 1 ELSE 0]

\* C7: the hash_num of every search state is the XOR over all cells of the table
\* entry for the colour the cell has on the board of that state.
C7_ZobristEquivalence ==
  \A i \in 1 .. Len(search) : search[i].hash_num = ZobristOf(search[i].board)

\* A search state two placements below its root
C7_Witness ==
  /\ Len(search) = 3
  /\ search[3].board # search[2].board
  /\ search[3].hash_num # search[1].hash_num

\* The discs of the other colour that a placement of c on pos turns over
Flipped(b, pm, pos, c) ==
  {q \in Positions : b[q[2]][q[1]] = FLIP_RULE[c] /\ place(b, pm, pos, c)[q[2]][q[1]] = c}

\* C8: before any placement the board has White on (3,3) and (4,4), Black on
\* (3,4) and (4,3) and nothing else, and each colour has exactly 4 legal moves,
\* each with exactly one flip direction that flips exactly 1 disc.
C8_InitialMoves ==
  (saved = << >> /\ load_count = 0) =>
     /\ Cells(board, "W") = {<<3, 3>>, <<4, 4>>}
     /\ Cells(board, "B") = {<<3, 4>>, <<4, 3>>}
     /\ \A c \in {"W", "B"} :
          /\ Cardinality(DOMAIN possible_moves[c]) = 4
          /\ \A pos \in DOMAIN possible_moves[c] :
               /\ Len(possible_moves[c][pos]) = 1
               /\ Cardinality(Flipped(board, possible_moves, pos, c)) = 1

\* A fresh game waits for the first click of Black
C8_Witness ==
  /\ kind = "LocalVersus"
  /\ pc = "get_pos"
  /\ saved = << >>
  /\ playing_colour = "B"

\* C9, as the claim states it: when play() asks for the first move after load(),
\* the board is the live board after line_count moves and the colour asked is the
\* colour the Turn Controller yields for the next ply of that live game.
C9_ResumeAsLive ==
  (kind = "LoadLocalVersus" /\ pc = "get_pos" /\ Len(saved) = load_count) =>
     /\ board = LiveReplay(commands, line_count).board
     /\ playing_colour = LiveColour(commands, line_count)

\* C10: whenever the viewer shows a line, its board and its legal-move sets are
\* those of the live game after the first current_line logged moves.
C10_ViewerAsLive ==
  (kind = "SavedGamesLoader" /\ pc = "view") =>
     LET live == LiveReplay(commands, current_line)
     IN /\ board = live.board
        /\ possible_moves = live.possible_moves

\* The viewer has gone back to line 3 of a game of 9 moves
C10_Witness ==
  /\ kind = "SavedGamesLoader"
  /\ pc = "view"
  /\ max_line = 9
  /\ current_line = 3
  /\ Cardinality(Cells(board, "E")) = 57

\* ---------------------------------------------------------------- C11

\* The load loop is about to read a line: the file has one more line, the
\* generator yields a colour and the loop does not break before the line
ReadsLine ==
  /\ pc = "load"
  /\ load_count < Len(commands)
  /\ GenNext(gen, possible_moves).at # "end"
  /\ load_count # (IF kind = "SavedGamesLoader" THEN seek_amount ELSE line_count)

\* The line the load loop is about to read is no legal move of the colour the
\* generator yields
ReadsIllegalLine ==
  /\ ReadsLine
  /\ get_pos_from_file(commands[load_count + 1])
       \notin DOMAIN board_change(board)[Yielded(GenNext(gen, possible_moves))]

C12_NeverRaises == pc # "raised"

\* ---------------------------------------------------------------- C13

\* The squares that are empty before a step and occupied after it
Placed == {p \in Positions : board[p[2]][p[1]] = "E" /\ board'[p[2]][p[1]] # "E"}

\* The colour whose turn it is in a loop that takes its moves from the queue or
\* from a save file
TurnColour ==
  IF pc = "load" THEN Yielded(GenNext(gen, possible_moves))
  ELSE IF kind = "SavedGamesLoader" THEN colour
  ELSE playing_colour

\* C13: in the loops that take their moves from the inbound queue or from a save
\* file, a step changes the board only by placing one piece of the colour whose
\* turn it is on a square that can_be_placed accepts for that colour and that is
\* a legal move of that colour on the board before the step.
C13_PlaceOnlyAfterCheck ==
  [][(pc \in {"get_pos", "load"} /\ board' # board) =>
        \E p \in Positions :
           /\ Placed = {p}
           /\ board'[p[2]][p[1]] = TurnColour
           /\ can_be_placed(possible_moves, p, TurnColour)
           /\ p \in DOMAIN board_change(board)[TurnColour]]_vars

\* The click of White on (3, 5) has been placed as the second ply of a game of
\* two players
C13_Witness ==
  /\ kind = "LocalVersus"
  /\ pc = "play"
  /\ Len(saved) = 2
  /\ board[5][3] = "W"
  /\ free = 0

\* The board of the state as the search methods see it
HashedBoard == get_hash_version(board, possible_moves)

\* C14: on every board on which neither colour has a legal move,
\* terminal_utility is 0 when White and Black have as many pieces, 85 plus
\* the margin when White has more, minus (85 plus the margin) when Black has
\* more; so it is positive exactly when White leads and negative exactly when
\* Black leads.
C14_TerminalUtility ==
  check_if_terminal(HashedBoard) =>
    LET white == count_pieces(board)["W"]
        black == count_pieces(board)["B"]
        utility == terminal_utility(HashedBoard)
    IN /\ white = black => utility = <<0, 1>>
       /\ white > black => utility = <<85 + (white - black), 1>>
       /\ black > white => utility = <<0 - (85 + (black - white)), 1>>
       /\ Less(<<0, 1>>, utility) <=> white > black
       /\ Less(utility, <<0, 1>>) <=> black > white

\* White has won the resumed game 14 to 0 and terminal_utility is 99
C14_Witness ==
  /\ kind = "LoadAI"
  /\ pc = "done"
  /\ count_pieces(board) = [W |-> 14, B |-> 0, E |-> 50]
  /\ check_if_terminal(HashedBoard)
  /\ terminal_utility(HashedBoard) = <<99, 1>>

\* |p| for a finite score p
AbsScore(p) == <<Abs(p[1]), p[2]>>

\* C15: on every board that is not terminal the heuristic estimate is at
\* most 85 in absolute value, and on every terminal board with unequal
\* counts the terminal utility is above 85 in absolute value.
C15_TerminalDominance ==
  IF check_if_terminal(HashedBoard)
    THEN count_pieces(board)["W"] # count_pieces(board)["B"]
           => Less(<<85, 1>>, AbsScore(terminal_utility(HashedBoard)))
    ELSE ~Less(<<85, 1>>, AbsScore(heuristic_utility(HashedBoard)))

\* minimax with the full window and an empty table
FullWindow(board_, maximising_player, lookahead) ==
  minimax(board_, neg_inf, inf, maximising_player, FALSE, lookahead, {}).score

\* score and move are the value of the board of the state at depth lookahead
\* and a legal move of White that has this value at depth lookahead - 1
BestAt(score, move, lookahead) ==
  /\ score = FullWindow(HashedBoard, TRUE, lookahead)
  /\ move \in DOMAIN possible_moves["W"]
  /\ LET new_board == HashedPlace(HashedBoard, move, "W")
     IN score = FullWindow(new_board, DOMAIN new_board.possible_moves["B"] = {}, lookahead - 1)

Evaluation(possible_action) ==
  LET new_board == HashedPlace(HashedBoard, possible_action, "W")
  IN IF check_if_terminal(new_board) THEN terminal_utility(new_board)
     ELSE heuristic_utility(new_board)

\* C17: minimax with the full window, initial set, lookahead 1 and an empty
\* table on a board where White has legal moves returns a legal move of White
\* and the terminal utility (on a terminal board) or heuristic utility
\* (otherwise) of the board after it, and no legal move of White has a
\* higher such value.
C17_DepthOne ==
  (result.call = "minimax" /\ result.lookahead = 1) =>
    /\ result.returned.is_tuple
    /\ result.returned.action \in DOMAIN possible_moves["W"]
    /\ result.returned.score = Evaluation(result.returned.action)
    /\ \A possible_action \in DOMAIN possible_moves["W"] :
         ~Less(result.returned.score, Evaluation(possible_action))

\* A search of depth 1 has returned a move that is not the first one tried,
\* on a board where White has more than two legal moves
C17_Witness ==
  /\ result.call = "minimax"
  /\ result.lookahead = 1
  /\ Cardinality(DOMAIN possible_moves["W"]) > 2
  /\ result.returned.action # SortedMoves(possible_moves["W"], << >>)[1]
  /\ result.returned.score = Evaluation(result.returned.action)

\* C18: with a search_time that does not run out,
\* iterative_deepening(board, difficulty, ...) calls MTDF with the depths
\* 1, 2, ..., difficulty in this order and returns the score and the move of
\* the search of depth difficulty.
C18_DepthRange ==
  result.call = "iterative_deepening" =>
    /\ result.returned.depths = [depth \in 1 .. result.difficulty |-> depth]
    /\ BestAt(result.returned.score, result.returned.move, result.difficulty)

\* End is the next message on the inbound queue
EndIsNext == gui_to_oth # << >> /\ Head(gui_to_oth) = "End"

\* C19: in every mode, once End is the next message on the inbound queue the
\* worker places no further piece, human or AI: its next step takes End and
\* quits.
C19_Cancellation ==
  [][EndIsNext => (board' = board /\ saved' = saved /\ pc' = "quit")]_vars

\* The places of the Winner messages among the messages put so far
Winners == {k \in DOMAIN oth_to_gui : oth_to_gui[k].type = "Winner"}

\* C20: the worker puts one Winner message per game, when the turn sequence
\* has ended with neither colour able to move and not before; it carries the
\* counts of White and Black on the final board and is the last message the
\* worker puts, so that no placement and no message follows it.
C20_WinnerOnce ==
  /\ Cardinality(Winners) = (IF pc = "done" THEN 1 ELSE 0)
  /\ pc = "done" =>
       /\ Winners = {Len(oth_to_gui)}
       /\ gen.at = "end"
       /\ DOMAIN possible_moves["W"] = {} /\ DOMAIN possible_moves["B"] = {}
       /\ possible_moves = board_change(board)
       /\ oth_to_gui[Len(oth_to_gui)].data = [x \in {"W", "B"} |-> count_pieces(board)[x]]

\* A game between two players has ended with 13 black pieces and no white one
C20_Witness ==
  /\ kind = "LocalVersus"
  /\ pc = "done"
  /\ Len(saved) = 9
  /\ oth_to_gui[Len(oth_to_gui)] = [type |-> "Winner", data |-> [W |-> 0, B |-> 13]]

\* The colour to move is the AI's, or that of the player at the other end of
\* the network
OpponentTurn ==
  \/ kind \in {"AI", "LoadAI"} /\ playing_colour = ai_colour
  \/ kind = "NetworkVersus" /\ playing_colour # colour

\* The last four messages the worker has put
LastFour == SubSeq(oth_to_gui, Len(oth_to_gui) - 3, Len(oth_to_gui))

\* The last four messages are the board, the colour to move, a set of legal
\* moves and the counts of White and Black, in this order and for the board
\* and colour of the state; the set is that of the colour to move, or empty
\* when the AI or the remote player is to move
Updated ==
  /\ Len(oth_to_gui) >= 4
  /\ LastFour[1] = [type |-> "Print", data |-> board]
  /\ LastFour[2] = [type |-> "Colour", data |-> playing_colour]
  /\ LastFour[3].type = "Possible"
  /\ LastFour[3].data = IF OpponentTurn THEN << >> ELSE possible_moves[playing_colour]
  /\ DOMAIN LastFour[3].data = {} <=> OpponentTurn
  /\ LastFour[4] = [type |-> "Count",
                    data |-> [W |-> count_pieces(board)["W"], B |-> count_pieces(board)["B"]]]

\* C21: every step in which the turn loop takes the next colour puts four
\* messages and nothing else: the board, the colour to move, a set of legal
\* moves and the counts of Black and White; the set is that of the colour to
\* move, and empty exactly when the colour to move is the AI's (game against
\* the AI) or the remote player's (network game). Every
\* placement of a turn loop is made in a state whose last four messages are
\* such an update for the board and colour of the ply.
C21_PerPlyUpdate ==
  [][/\ (pc = "play" /\ pc' \in {"get_pos", "ai_play"}) =>
          (Len(oth_to_gui') = Len(oth_to_gui) + 4 /\ Updated')
     /\ (pc \in {"get_pos", "ai_place"} /\ board' # board) => Updated]_vars

\* The local player of a network game has moved and the worker waits for the
\* move of the remote player: the legal moves of that player are not empty and
\* the update before the ply carries the empty set
C21_Witness ==
  /\ kind = "NetworkVersus"
  /\ colour = "B"
  /\ pc = "get_pos"
  /\ playing_colour = "W"
  /\ Updated
  /\ LastFour[3].data = << >>
  /\ DOMAIN possible_moves["W"] # {}
  /\ Len(saved) = 1

\* The first k lines of a log replayed from the start position, each for the
\* colour the Turn Controller yields for the ply; ok is lost at a line that is
\* no legal move of that colour
RECURSIVE Replayed(_, _)
Replayed(file, k) ==
  IF k = 0
    THEN [ok |-> TRUE, board |-> InitBoard, possible_moves |-> board_change(InitBoard),
          gen |-> end_game_iterator("B")]
  ELSE LET before == Replayed(file, k - 1)
           g == GenNext(before.gen, before.possible_moves)
           pos == get_pos_from_file(file[k])
       IN IF ~before.ok \/ g.at = "end" \/ ~can_be_placed(before.possible_moves, pos, g.colour)
            THEN [before EXCEPT !.ok = FALSE]
          ELSE LET b == place(before.board, before.possible_moves, pos, g.colour)
               IN [ok |-> TRUE, board |-> b, possible_moves |-> board_change(b), gen |-> g]

\* The log of the game replayed in full
ReplayedLog == Replayed(saved, Len(saved))

\* C22: in every game of a turn loop the save log holds one line per placement
\* made, in play order; replayed from the start position through the Turn
\* Controller it gives, after each ply, the board of the game and the colour
\* that made the ply.
C22_LogRoundTrip ==
  kind \in {"LocalVersus", "LoadLocalVersus", "AI", "NetworkVersus"} =>
    /\ Len(saved) = 60 - count_pieces(board)["E"]
    /\ ReplayedLog.ok
    /\ ReplayedLog.board = board
    /\ (pc = "play" /\ Len(saved) > 0) => Yielded(ReplayedLog.gen) = playing_colour

\* The colours of a line of play minimax explores and of the same placements
\* played live agree: at a node of the search that places a piece (not terminal,
\* lookahead left) the colour minimax moves is the colour the generator g has
\* yielded, and so on below after each move of tried, where the generator is
\* advanced on the legal moves of the new board as play advances it. Below the
\* node the line follows the move each loop of minimax tries first.
RECURSIVE Mirrors(_, _, _, _, _)
Mirrors(board_, maximising_player, lookahead, g, tried) ==
  IF check_if_terminal(board_) \/ lookahead <= 0 THEN TRUE
  ELSE LET mover == IF maximising_player THEN "W" ELSE "B"
       IN /\ Yielded(g) = mover
          /\ \A possible_action \in tried :
                LET new_board == HashedPlace(board_, possible_action, mover)
                    next_colour == IF ChildMaximising(mover, new_board) THEN "W" ELSE "B"
                IN Mirrors(new_board, ChildMaximising(mover, new_board), lookahead - 1,
                           GenNext(g, new_board.possible_moves),
                           IF DOMAIN new_board.possible_moves[next_colour] = {} THEN {}
                           ELSE {SortedMoves(new_board.possible_moves[next_colour], << >>)[1]})

\* C23: along every line of play minimax explores from the root the AI is asked
\* to move on, the colour minimax gives each placement is the colour
\* end_game_iterator yields for it when the same moves are played live.
C23_PassRuleMirrors ==
  (kind = "LoadAI" /\ pc = "returned" /\ result.call = "minimax") =>
    Mirrors(get_hash_version(board, possible_moves), TRUE, result.lookahead, gen,
            DOMAIN possible_moves["W"])

\* The entry of the table for the board of the live game, when minimax has been
\* called on a table
RootEntries == {e \in result.search_dict : e.board = board}

OnTable == kind = "LoadAI" /\ pc = "returned" /\ result.call = "minimax_table"

Shallow == OnTable /\ \E e \in RootEntries : e.depth < result.lookahead

RootLookup ==
  Lookup(result.search_dict, get_hash_version(board, possible_moves), result.alpha, result.beta,
         result.lookahead)

\* C24: a stored entry is used to return early or to tighten the window only
\* when its depth is at least the depth the node needs; with a shallower entry
\* for the board the window stays as passed and minimax returns what it returns
\* on the table without that entry.
C24_TableTrust ==
  OnTable =>
    /\ RootLookup.hit => \E e \in RootEntries : e.depth >= result.lookahead
    /\ Shallow =>
         /\ ~RootLookup.returns
         /\ RootLookup.alpha = result.alpha
         /\ RootLookup.beta = result.beta
         /\ result.returned = minimax(get_hash_version(board, possible_moves), result.alpha,
                                      result.beta, TRUE, TRUE, result.lookahead,
                                      result.search_dict \ RootEntries)

\* A shallow entry whose value, trusted, would have cut the search off
C24_Witness ==
  /\ Shallow
  /\ \E e \in RootEntries : e.type_of_info = 2 /\ ~Less(result.alpha, e.value)
  /\ Len(result.returned.expanded) > 1

\* C25: when the table holds, for the board of a node, an entry shallower than
\* the depth the node needs, the move of that entry is the first move the node
\* expands.
C25_ShallowHint ==
  Shallow =>
    /\ result.returned.expanded # << >>
    /\ \A e \in RootEntries : result.returned.expanded[1] = e.move

\* A hit of sufficient depth that does not end the call
HitGoesOn == OnTable /\ RootLookup.hit /\ ~RootLookup.returns

Expanded == result.returned.expanded

\* C26: at a node with a hit of sufficient depth that does not cut off, whose
\* stored move is a legal move of the colour to move, the stored move is
\* expanded first, every move expanded is a legal move expanded once, and all
\* legal moves are expanded unless the loop is left by its break.
C26_HitOrdering ==
  (HitGoesOn /\ RootLookup.move \in DOMAIN possible_moves["W"]) =>
    /\ Expanded # << >>
    /\ Expanded[1] = RootLookup.move
    /\ \A i, j \in DOMAIN Expanded : Expanded[i] = Expanded[j] => i = j
    /\ \A i \in DOMAIN Expanded : Expanded[i] \in DOMAIN possible_moves["W"]
    /\ \/ Len(Expanded) = Cardinality(DOMAIN possible_moves["W"])
       \/ ~Less(result.returned.score, RootLookup.beta)

\* A hit whose stored move is not the first key of the dictionary, followed by
\* all the other moves
C26_Witness ==
  /\ HitGoesOn
  /\ Expanded # << >>
  /\ Expanded[1] = RootLookup.move
  /\ Expanded[1] # SortedMoves(possible_moves["W"], << >>)[1]
  /\ Len(Expanded) = Cardinality(DOMAIN possible_moves["W"])
  /\ Len(Expanded) > 2

\* The tag of a score against a window: 2 upper bound, 1 exact, 0 lower bound
Tag(score, alpha, beta) ==
  IF ~Less(alpha, score) THEN 2
  ELSE IF Less(score, beta) THEN 1
  ELSE 0

\* What the call has left in the table for the board of the root
Written == {e \in result.returned.searched_moves : e.board = board}

\* C27: a node that has expanded moves leaves exactly one entry for its board,
\* with the score returned, the depth searched and the move chosen, tagged by
\* where the score lies in the window the node was called with; the leaves
\* below a node of depth 1 write nothing.
C27_TableStore ==
  (OnTable /\ Expanded # << >>) =>
    /\ Cardinality(Written) = 1
    /\ \A e \in Written :
         /\ e.value = result.returned.score
         /\ e.depth = result.lookahead
         /\ e.move = result.returned.action
         /\ e.type_of_info = Tag(result.returned.score, result.alpha, result.beta)
    /\ result.lookahead = 1 =>
         result.returned.searched_moves \ Written = result.search_dict \ RootEntries

\* A search method has returned to ai_play, or left it by an exception
Searched == kind = "LoadAI" /\ pc = "returned" /\ result.call # "none"

\* The board the search was started on
Root == get_hash_version(board, possible_moves)

\* C28: a search ai_play starts on a board the generator has handed to White
\* never runs the move loop of minimax for a colour without a legal move, so no
\* call ends by the exception of the unassigned action; a call of minimax for
\* a colour without a legal move on a board that is not terminal ends by that
\* exception and returns no score.
C28_NoMovelessExpansion ==
  Searched =>
    /\ result.call \in {"minimax", "MTDF", "iterative_deepening"} => ~result.returned.raised
    /\ result.call = "minimax_as" =>
         /\ result.returned.raised <=> DOMAIN possible_moves["B"] = {}
         /\ result.returned.raised => result.returned.score = << >> /\ ~check_if_terminal(Root)

\* A search of two plies in which a move of White leaves Black without a move
\* on a board that is not terminal: the node below is White's again
C28_Witness ==
  /\ Searched
  /\ result.call = "minimax"
  /\ result.lookahead = 2
  /\ ~result.returned.raised
  /\ \E possible_action \in DOMAIN possible_moves["W"] :
       LET new_board == HashedPlace(Root, possible_action, "W")
       IN DOMAIN new_board.possible_moves["B"] = {} /\ ~check_if_terminal(new_board)

\* Neither colour has a legal move on the board of the game
NeitherCanMove == DOMAIN possible_moves["B"] = {} /\ DOMAIN possible_moves["W"] = {}

\* The positions a generator can be asked for the next colour in
GenPositions ==
  {[colour |-> c, at |-> at, prev |-> None] : c \in {"B", "W"}, at \in {"start", "yield_a", "yield_b"}}

\* C29: on every board of a game check_if_terminal is true exactly when both
\* colours have no legal move, which is exactly when end_game_iterator ends
\* instead of yielding; a colour without a piece on the board leaves both
\* colours without a move.
C29_TerminalPredicate ==
  /\ check_if_terminal(Root) <=> NeitherCanMove
  /\ \A g \in GenPositions : GenNext(g, possible_moves).at = "end" <=> NeitherCanMove
  /\ (count_pieces(board)["W"] = 0 \/ count_pieces(board)["B"] = 0) => NeitherCanMove

\* A game has ended with no white piece left on the board
C29_Witness ==
  /\ kind \in {"LocalVersus", "LoadLocalVersus"}
  /\ pc = "done"
  /\ count_pieces(board)["W"] = 0
  /\ check_if_terminal(Root)

\* The two sums heuristic_utility divides by are not 0
Total(othello) == HeuristicTerms(othello).piece_count[2] # 0 /\ HeuristicTerms(othello).mobility[2] # 0

\* Total holds on every board minimax evaluates by heuristic_utility below a
\* node when no cut-off and no table entry keeps it from a move: the boards
\* that are not terminal where lookahead has run out
RECURSIVE CutoffsTotal(_, _, _)
CutoffsTotalBelow(new_board, mover, lookahead) ==
  CutoffsTotal(new_board, ChildMaximising(mover, new_board), lookahead - 1)

CutoffsTotalOf(board_, mover, lookahead) ==
  \A possible_action \in DOMAIN board_.possible_moves[mover] :
    CutoffsTotalBelow(HashedPlace(board_, possible_action, mover), mover, lookahead)

CutoffsTotal(board_, maximising_player, lookahead) ==
  IF check_if_terminal(board_) THEN TRUE
  ELSE IF lookahead <= 0 THEN Total(board_)
  ELSE CutoffsTotalOf(board_, IF maximising_player THEN "W" ELSE "B", lookahead)

\* C30: where the search calls heuristic_utility the board is not terminal and
\* the sum of the piece counts and the sum of the two move counts are not 0, so
\* no search ends by a division by zero.
C30_HeuristicTotal ==
  Searched =>
    /\ result.returned.exception # "ZeroDivisionError"
    /\ result.call = "minimax" => CutoffsTotal(Root, TRUE, result.lookahead)

\* A search of one ply has evaluated, after a move it has expanded, a board
\* that is not terminal on which Black has no legal move
C30_Witness ==
  /\ Searched
  /\ result.call = "minimax"
  /\ result.lookahead = 1
  /\ ~result.returned.raised
  /\ \E i \in DOMAIN result.returned.expanded :
       LET othello == HashedPlace(Root, result.returned.expanded[i], "W")
       IN /\ ~check_if_terminal(othello)
          /\ DOMAIN othello.possible_moves["B"] = {}
          /\ HeuristicTerms(othello).mobility[1] = HeuristicTerms(othello).mobility[2]

\* The cells <<y, x>> of the run of colour c that starts at the corner <<y, x>>
\* and goes along the edge in the direction line_diff
RECURSIVE EdgeRun(_, _, _, _, _)
EdgeRun(b, c, y, x, line_diff) ==
  IF ~InRange(x, y) THEN {}
  ELSE IF b[y][x] # c THEN {}
  ELSE {<<y, x>>} \cup EdgeRun(b, c, y + line_diff[1], x + line_diff[2], line_diff)

\* The two edges that meet at each corner, in (y, x, line_diff) notation
CornerEdges ==
  { <<0, 0, <<0, 1>>>>, <<0, 0, <<1, 0>>>>,
    <<0, BOARD_SIZE - 1, <<0, -1>>>>, <<0, BOARD_SIZE - 1, <<1, 0>>>>,
    <<BOARD_SIZE - 1, 0, <<0, 1>>>>, <<BOARD_SIZE - 1, 0, <<-1, 0>>>>,
    <<BOARD_SIZE - 1, BOARD_SIZE - 1, <<0, -1>>>>, <<BOARD_SIZE - 1, BOARD_SIZE - 1, <<-1, 0>>>> }

\* The discs of colour c on the runs from the corners along the edges
EdgeRuns(b, c) == UNION {EdgeRun(b, c, e[1], e[2], e[3]) : e \in CornerEdges}

\* The board a search of one ply has evaluated after the move it returns
EvaluatedBoard == HashedPlace(Root, result.returned.action, "W").board

\* C31: on every board heuristic_utility evaluates, the stable count of each
\* colour is the number of discs on the runs of that colour that start at a
\* corner and go along the two edges meeting there, each disc counted once.
C31_StabilityCount ==
  (Searched /\ result.call = "minimax" /\ result.lookahead = 1 /\ ~result.returned.raised) =>
    \A c \in {"W", "B"} :
      Len(Stable(EvaluatedBoard, c, Len(SAFE_LINES))) = Cardinality(EdgeRuns(EvaluatedBoard, c))

\* What iterative_deepening has returned
Deepened == Searched /\ result.call = "iterative_deepening_until" /\ ~result.returned.raised

\* The last depth the loop of a call with this difficulty and this expiry
\* searches
LastDepth(difficulty, expires) ==
  IF expires \in 1 .. difficulty - 1 THEN expires ELSE difficulty - 1

\* C32: iterative deepening calls MTDF at depth d with the score the search of
\* depth d - 2 returned as first guess, and with 0 at depths 1 and 2; when the
\* time budget is found spent after depth d no deeper search is started, and
\* the score and the move of the deepest search made are what is returned.
C32_DeepeningGuesses ==
  Deepened =>
    LET r == result.returned
        last == LastDepth(result.difficulty, result.expires)
    IN /\ r.depths = [d \in 1 .. last |-> d]
       /\ DOMAIN r.guesses = 1 .. last /\ DOMAIN r.scores = 1 .. last
       /\ \A d \in 1 .. last : r.guesses[d] = IF d <= 2 THEN <<0, 1>> ELSE r.scores[d - 2]
       /\ r.score = r.scores[last]
       /\ r.move = MTDF(Root, r.guesses[last], last,
                        IF last = 1 THEN {}
                        ELSE iterative_deepening_until(Root, last, {}, 0).search_dict).move
       /\ r.broke <=> result.expires \in 1 .. result.difficulty - 1

\* A search of depth 3 that starts from the score of depth 1, which is neither
\* 0 nor the score of depth 2, and a search the time budget has cut short
C32_Witness ==
  /\ Deepened
  /\ result.returned.depths = <<1, 2, 3>>
  /\ result.returned.guesses[3] = result.returned.scores[1]
  /\ result.returned.scores[1] # <<0, 1>>
  /\ result.returned.scores[1] # result.returned.scores[2]

C32_WitnessExpired ==
  /\ Deepened
  /\ result.difficulty = MaxDepth + 2
  /\ result.expires = 2
  /\ result.returned.depths = <<1, 2>>

\* ai_play of a tier with a difficulty has returned a move in this game
TimedMove ==
  kind = "LoadAI" /\ result.call = "ai_play" /\ ~result.raised /\ DIFFICULTY_TO_AI_CONFIG[tier].timed

\* C33: after an AI move of a timed tier every entry the search has left with a
\* depth below 3 is gone from the table of the game, every other entry is kept
\* with its board, score, kind of bound and move and a depth two less, so that
\* every entry kept has a depth of at least 1; in the tier without difficulty
\* (Easy) the table of the game is never written and the search reads an
\* empty table of its own.
C33_TableDecay ==
  /\ TimedMove =>
        /\ \A e \in result.search_dict :
              IF e.depth < 3
                THEN \A f \in self_search_dict : f.board # e.board
                ELSE /\ [e EXCEPT !.depth = e.depth - 2] \in self_search_dict
                     /\ Cardinality({f \in self_search_dict : f.board = e.board}) = 1
        /\ \A f \in self_search_dict :
              /\ f.depth >= 1
              /\ \E e \in result.search_dict : e.board = f.board /\ e.depth = f.depth + 2
  /\ (kind = "LoadAI" /\ ~DIFFICULTY_TO_AI_CONFIG[tier].timed) =>
        /\ self_search_dict = {}
        /\ result.call = "ai_play" => result.search_dict = {} /\ result.before = {}

\* A timed move after which entries have been dropped and entries have been
\* kept
C33_Witness ==
  /\ TimedMove
  /\ pc = "ai_place"
  /\ \E e \in result.search_dict : e.depth < 3
  /\ \E e \in result.search_dict : e.depth = 4
  /\ \E f \in self_search_dict : f.depth = 1
  /\ \E f \in self_search_dict : f.depth = 2

\* C35: the move ai_play returns is a key of the legal-move set of White on
\* the board of the game, in every tier and also where the call of minimax at
\* the root is answered from an entry of the table an earlier turn has left.
C35_AIMoveLegal ==
  (kind = "LoadAI" /\ pc = "ai_place") => ai_tup \in DOMAIN possible_moves[ai_colour]

\* The first call of minimax of a timed ai_play takes the if branch of the
\* lookup for the board of the game: MTDF starts depth 1 with the window (-1, 0)
RootHit ==
  Lookup(self_search_dict, get_hash_version(board, possible_moves), <<-1, 1>>, <<0, 1>>, 1).hit

\* C36: an entry of the table is used only at a node whose side to move is the
\* side to move of the node that stored it. The board of the game after a move
\* of White was stored, in the search of that move, by the call on the child of
\* the root, where the side to move is ChildMaximising; ai_play looks it up
\* with White to move.
C36_SameSideToMove ==
  (TimedMove /\ pc = "ai_play" /\ playing_colour = ai_colour /\ RootHit) =>
    ChildMaximising("W", get_hash_version(board, possible_moves))

\* C34: a search leaves the board and the legal-move sets of the game as they
\* were, and a placement on a copied state changes neither the board, nor the
\* hash, nor the legal-move sets of its parent or of a state copied from the
\* same parent earlier, although the copy refers to the legal-move dictionary
\* of its parent until board_change binds a new one: every object of the
\* running search has the board it was called with, the hash of that board and
\* the legal moves of that board.
C34_SearchIsolation ==
  heap # << >> =>
    /\ heap[1] = possible_moves
    /\ possible_moves = board_change(board)
    /\ search # << >> => search[1].board = board
    /\ \A i \in 1 .. Len(search) :
         /\ search[i].ref \in 1 .. Len(heap)
         /\ heap[search[i].ref] = board_change(search[i].board)
         /\ search[i].hash_num = ZobristRows(search[i].board, 0)
         /\ i > 1 /\ search[i].at = "copied" =>
              search[i].board = search[i - 1].board /\ search[i].ref = search[i - 1].ref
         /\ i > 1 /\ search[i].at = "call" =>
              search[i].board # search[i - 1].board /\ search[i].ref # search[i - 1].ref

\* A copy two plies below the root that still refers to the dictionary of its
\* parent, which is not the dictionary of the game
C34_Witness ==
  /\ Len(search) = 3
  /\ search[3].at = "copied"
  /\ search[3].ref = search[2].ref
  /\ search[2].ref # 1
  /\ heap[search[2].ref] # heap[1]

\* A complete search of two plies
C34_WitnessDone ==
  /\ pc = "returned"
  /\ search = << >>
  /\ heap = <<possible_moves>>

\* C37: the while loop of MTDF ends, by lower_bound >= upper_bound, after
\* finitely many calls of minimax: for every root, every depth and first guess
\* of iterative deepening and the table the shallower depths have left, each
\* MTDF has left its loop by the condition of the loop before the cut of the
\* model at MaxPasses calls.
C37_MTDFTerminates ==
  (Searched /\ result.call = "iterative_deepening_until") =>
    /\ result.returned.ended
    /\ \A i \in DOMAIN result.returned.passes :
         result.returned.passes[i] >= 1 /\ result.returned.passes[i] < MaxPasses

\* A search of depth 3 on the table of depths 1 and 2, from the score of depth
\* 1, that has taken four calls of minimax or more
C37_Witness ==
  /\ Deepened
  /\ Len(result.returned.passes) = 3
  /\ result.returned.passes[3] >= 4
  /\ result.returned.guesses[3] # <<0, 1>>

\* ---------------------------------------------------------------- C40

\* Lines that follow the last line of a recorded game in a file on disk
TrailingLines == { << <<0, 0>> >>, << <<0, 0>>, <<7, 7>> >> }

\* The files the viewer is given: the save files, the record of a game of sixty
\* plies, and records with lines after their last move
ViewerFiles ==
  SaveFiles \cup {SaveFile(DrawnGame)} \cup {SaveFile(o \o t) : o \in Openings, t \in TrailingLines}

\* SavedGamesLoader.__init__ and the head of load() on one of these files
InitViewer ==
  /\ kind = "SavedGamesLoader"
  /\ InitOthello
  /\ playing_colour = "B"
  /\ commands \in ViewerFiles
  /\ max_line = Len(commands)
  /\ colour = "W"
  /\ gen = end_game_iterator(FLIP_RULE["W"])
  /\ pc = "load"
  /\ saved = << >>
  /\ free = 0
  /\ line_count = 0
  /\ load_count = 0
  /\ search = << >>
  /\ previous_states = << >>
  /\ current_line = 0
  /\ NoMessages

NextViewer ==
  \/ ViewerLoadStep
  \/ line_load_forwards
  \/ line_load_backwards

SpecViewer == InitViewer /\ [][NextViewer]_vars

\* load has returned and the buttons of the viewer are served
Viewing == kind = "SavedGamesLoader" /\ pc \in {"view", "raised"}

\* The line shown is a line of the file, previous_states holds a state for the
\* line a button can ask for, and no call has read past its end
ViewerInBounds ==
  Viewing =>
    /\ 0 <= current_line /\ current_line <= max_line
    /\ \A line \in 0 .. max_line : line + 1 \in DOMAIN previous_states
    /\ result.call # "none" => result.raised # "IndexError"

\* A call at the end it cannot leave raises BoardError and changes nothing
ViewerAtTheEnds ==
  ((line_load_forwards /\ current_line = max_line) \/ (line_load_backwards /\ current_line = 0)) =>
     /\ result'.raised = "BoardError"
     /\ UNCHANGED <<current_line, board, colour>>

\* C40: after load, whatever buttons are pressed, 0 <= current_line <= max_line,
\* every read of previous_states is inside the list, and line_load_forwards at
\* max_line and line_load_backwards at line 0 raise BoardError and leave
\* current_line, the board and the colour as they were.
C40_ViewerBounds == [](ViewerInBounds) /\ [][ViewerAtTheEnds]_vars

\* The same for the files that are the record of a game and nothing more
ViewerOfRecord ==
  (Viewing /\ commands \in SaveFiles \cup {SaveFile(DrawnGame)}) =>
     /\ ViewerInBounds
     /\ pc = "view"
     /\ Len(previous_states) = max_line + 1

\* ---------------------------------------------------------------- C38

\* The ply from which a player may leave the recorded game
FreeFrom == 48

\* The moves the players of a whole game supply: the move of a recorded game (one
\* of sixty plies without a pass, one of 54 plies after which Black has to
\* pass), from ply FreeFrom on any legal move up to MaxFree times, and
\* after the last of these the first legal move in the order of the dictionary
Recorded(pos) ==
  free = 0 /\ \E o \in {DrawnGame, TimedGame} : IsPrefix(Append(saved, SaveLine(pos)), SaveFile(o))

Supplied(pos) ==
  \/ Recorded(pos)
  \/ free < MaxFree /\ Len(saved) >= FreeFrom
  \/ free = MaxFree /\ pos = SortedMoves(possible_moves[playing_colour], << >>)[1]

\* The body of the for loop of LocalVersus.play for a click that can_be_placed
\* accepts: save(tup[0]) and place(tup[0], playing_colour)
Placement(pos) ==
  /\ kind = "LocalVersus"
  /\ pc = "get_pos"
  /\ gui_to_oth = << >>
  /\ can_be_placed(possible_moves, pos, playing_colour)
  /\ Supplied(pos)
  /\ free' = IF Recorded(pos) \/ free = MaxFree THEN free ELSE free + 1
  /\ saved' = Append(saved, SaveLine(pos))
  /\ \E placed \in {place(board, possible_moves, pos, playing_colour)} :
        /\ board' = placed
        /\ possible_moves' = board_change(placed)
  /\ pc' = "play"
  /\ UNCHANGED <<kind, playing_colour, gen>>
  /\ UNCHANGED loadVars
  /\ UNCHANGED viewerVars
  /\ UNCHANGED ioVars
  /\ UNCHANGED searchVars

\* Clicks no board accepts: off the board, and on a square of the start position
RefusedClicks == {<<-1, 3>>, <<3, 3>>}

\* The while loop of play for a click that can_be_placed refuses: it asks again
Refusal(pos) ==
  /\ kind = "LocalVersus"
  /\ pc = "get_pos"
  /\ gui_to_oth = << >>
  /\ ~can_be_placed(possible_moves, pos, playing_colour)
  /\ UNCHANGED vars

\* A legal move is supplied for the ply that is asked for
Supply == \E pos \in Positions : Placement(pos)

NextTurns ==
  \/ NextColour
  \/ Supply
  \/ \E pos \in RefusedClicks : Refusal(pos)

\* The players have a legal move to supply for the ply that is asked for: the
\* states in which Supply is enabled
CanAnswer ==
  /\ kind = "LocalVersus"
  /\ pc = "get_pos"
  /\ gui_to_oth = << >>
  /\ \E pos \in Positions : can_be_placed(possible_moves, pos, playing_colour) /\ Supplied(pos)

\* Weak fairness of Supply, with its enabling condition written out: a legal move
\* is supplied in the end for every ply that waits for one
MovesSupplied == []<>(~CanAnswer) \/ []<><<Supply>>_vars

\* A game of two players at one computer in which the worker thread goes on to
\* the head of its for loop and every move asked for is supplied in the end
SpecTurns == InitLocalVersus /\ [][NextTurns]_vars /\ WF_vars(NextColour) /\ MovesSupplied

\* The number of placements a board has room for
MaxPlacements == BOARD_SIZE * BOARD_SIZE - 4

\* The turn loop has been left: print_board and evaluate_winner have run
Evaluated ==
  /\ pc = "done"
  /\ oth_to_gui # << >>
  /\ oth_to_gui[Len(oth_to_gui)].type = "Winner"

TurnsBounded ==
  /\ Len(saved) <= MaxPlacements
  /\ count_pieces(board)["E"] = MaxPlacements - Len(saved)
  /\ pc = "get_pos" => DOMAIN possible_moves[playing_colour] # {}
  /\ count_pieces(board)["E"] = 0 => \A c \in {"W", "B"} : DOMAIN possible_moves[c] = {}
  /\ pc = "done" => Evaluated

\* C38: when a legal move is supplied in the end for every ply, a game run by the
\* turn loop has at most 60 placements, each of which fills one empty cell, the
\* colour asked always has a legal move, a full board has none, and the loop
\* ends and reaches evaluate_winner.
C38_GameTerminates == [](TurnsBounded) /\ <>(Evaluated)

\* A game has ended on a full board after sixty placements
C38_Witness ==
  /\ kind = "LocalVersus"
  /\ Evaluated
  /\ Len(saved) = MaxPlacements
  /\ count_pieces(board)["E"] = 0

\* A game has ended in which Black had to pass after 54 placements
C38_WitnessPass ==
  /\ kind = "LocalVersus"
  /\ Evaluated
  /\ IsPrefix(SaveFile(TimedGame), saved)

\* ---------------------------------------------------------------- C39

\* The variables of the game of one worker
oneVars == <<kind, board, possible_moves, playing_colour, gen, pc, saved, free,
             commands, line_count, load_count, search, previous_states, current_line,
             max_line, colour, gui_to_oth, oth_to_gui, queue, oth_to_network, ai_tup, result,
             self_search_dict, tier, heap>>

\* A NetworkVersus worker when play() is entered: colour is the colour get_colour
\* has taken, inbox the queue gui_and_network_to_oth, outbox the queue
\* oth_to_network, placed the (position, colour) pairs it has placed, tup the
\* position get_pos has returned to play
PairWorker(c) ==
  [colour |-> c, board |-> InitBoard, possible_moves |-> board_change(InitBoard),
   playing_colour |-> "B", gen |-> end_game_iterator("B"), pc |-> "play", placed |-> << >>,
   inbox |-> << >>, outbox |-> << >>, tup |-> None]

\* Two workers of opposite colours, the network thread of each, and for each
\* colour the Move messages its network thread has sent that the other has not
\* yet received, in the order of the connection
InitPair ==
  /\ kind = "NetworkVersus"
  /\ InitOthello
  /\ playing_colour = "B"
  /\ gen = end_game_iterator("B")
  /\ pc = "play"
  /\ saved = << >>
  /\ free = 0
  /\ commands = << >>
  /\ line_count = 0
  /\ load_count = 0
  /\ search = << >>
  /\ previous_states = << >>
  /\ current_line = 0
  /\ max_line = 1
  /\ colour = "B"
  /\ gui_to_oth = << >>
  /\ oth_to_gui = << >>
  /\ queue = << >>
  /\ oth_to_network = << >>
  /\ ai_tup = << >>
  /\ result = NoResult
  /\ self_search_dict = {}
  /\ tier = "Easy"
  /\ heap = << >>
  /\ net = [w |-> [c \in {"B", "W"} |-> PairWorker(c)],
            tcp |-> [c \in {"B", "W"} |-> "tcp_loop"],
            wire |-> [c \in {"B", "W"} |-> << >>]]

\* The positions the GUI of a worker sends besides the moves of a recorded game:
\* a square of the start position, and the pixel offset click_pos returns for a
\* click on the first column of pixels of the board
PairOddClicks == {<<3, 3>>, <<0, 350>>}

\* The next move of the recorded games a worker has followed
PairScripted(placed) ==
  {o[Len(placed) + 1] : o \in {q \in Openings : /\ Len(q) > Len(placed)
                                                /\ \A i \in 1 .. Len(placed) : q[i] = placed[i][1]}}

\* Board.check_event of the GUI of worker c: a click on the board is put on the
\* queue to the worker, whoever is to move
PairClick(c, pos) ==
  /\ net.w[c].pc # "done"
  /\ Len(net.w[c].inbox) + Len(net.w[c].outbox) + Len(net.wire[c]) < MaxSent
  /\ pos \in PairScripted(net.w[c].placed) \cup PairOddClicks
  /\ net' = [net EXCEPT !.w[c].inbox = Append(@, [type |-> "Click", data |-> pos])]
  /\ UNCHANGED oneVars

\* The head of the for loop of play in worker c
PairNextColour(c) ==
  /\ net.w[c].pc = "play"
  /\ LET g == GenNext(net.w[c].gen, net.w[c].possible_moves)
     IN net' = [net EXCEPT !.w[c].gen = g,
                           !.w[c].pc = IF g.at = "end" THEN "done" ELSE "get_pos",
                           !.w[c].playing_colour = IF g.at = "end" THEN @ ELSE Yielded(g)]
  /\ UNCHANGED oneVars

\* A get_pos that returns every Click and every Net_Click, whoever is to move
PairAccepted_any(w, answer) == TRUE

\* NetworkVersus.get_pos: a Click is returned on the turn of the local colour, a
\* Net_Click on the turn of the other
PairAccepted(w, answer) ==
  \/ answer.type = "Click" /\ w.playing_colour = w.colour
  \/ answer.type = "Net_Click" /\ w.playing_colour # w.colour

\* One pass of the while loop of NetworkVersus.get_pos in worker c: the message is
\* taken; a Click that is returned is first put on the queue to the network
\* thread, a message on the wrong turn is dropped
PairGetPos(c) ==
  /\ net.w[c].pc = "get_pos"
  /\ net.w[c].inbox # << >>
  /\ LET answer == Head(net.w[c].inbox)
     IN net' = [net EXCEPT
                  !.w[c].inbox = Tail(@),
                  !.w[c].outbox = IF answer.type = "Click" /\ PairAccepted(net.w[c], answer)
                                    THEN Append(@, [type |-> "Net_Send", data |-> answer.data])
                                    ELSE @,
                  !.w[c].tup = IF PairAccepted(net.w[c], answer) THEN answer.data ELSE None,
                  !.w[c].pc = IF PairAccepted(net.w[c], answer) THEN "placing" ELSE "get_pos"]
  /\ UNCHANGED oneVars

\* play in worker c with the position get_pos has returned: can_be_placed refuses
\* it and get_pos is called again, or it is saved and placed
PairPlace(c) ==
  /\ net.w[c].pc = "placing"
  /\ LET w == net.w[c]
     IN IF can_be_placed(w.possible_moves, w.tup, w.playing_colour)
          THEN \E b \in {place(w.board, w.possible_moves, w.tup, w.playing_colour)} :
                 net' = [net EXCEPT !.w[c].board = b,
                                    !.w[c].possible_moves = board_change(b),
                                    !.w[c].placed = Append(@, <<w.tup, w.playing_colour>>),
                                    !.w[c].tup = None,
                                    !.w[c].pc = "play"]
          ELSE net' = [net EXCEPT !.w[c].tup = None, !.w[c].pc = "get_pos"]
  /\ UNCHANGED oneVars

\* The values int.to_bytes(1, "big") takes
Byte == 0 .. 255

\* tcp_loop of the network thread of worker c takes a Net_Send: both coordinates
\* are turned into one byte each and the Move message is sent; a coordinate
\* that is no byte raises OverflowError, which ends the thread
PairTcpSend(c) ==
  /\ net.tcp[c] = "tcp_loop"
  /\ net.w[c].outbox # << >>
  /\ LET position == Head(net.w[c].outbox).data
     IN IF position[1] \in Byte /\ position[2] \in Byte
          THEN net' = [net EXCEPT !.w[c].outbox = Tail(@),
                                  !.wire[c] = Append(@, <<position[1], position[2]>>)]
          ELSE net' = [net EXCEPT !.w[c].outbox = Tail(@), !.tcp[c] = "raised"]
  /\ UNCHANGED oneVars

\* tcp_loop of the network thread of worker c receives the oldest Move message
\* of the other side and puts it on the queue to its worker as Net_Click
PairTcpReceive(c) ==
  /\ net.tcp[c] = "tcp_loop"
  /\ net.wire[FLIP_RULE[c]] # << >>
  /\ Len(net.w[c].inbox) <= MaxSent
  /\ LET data == Head(net.wire[FLIP_RULE[c]])
     IN net' = [net EXCEPT !.wire[FLIP_RULE[c]] = Tail(@),
                           !.w[c].inbox = Append(@, [type |-> "Net_Click", data |-> <<data[1], data[2]>>])]
  /\ UNCHANGED oneVars

NextPair ==
  \/ \E c \in {"B", "W"} : \E pos \in Positions \cup PairOddClicks : PairClick(c, pos)
  \/ \E c \in {"B", "W"} : PairNextColour(c)
  \/ \E c \in {"B", "W"} : PairGetPos(c)
  \/ \E c \in {"B", "W"} : PairPlace(c)
  \/ \E c \in {"B", "W"} : PairTcpSend(c)
  \/ \E c \in {"B", "W"} : PairTcpReceive(c)

SpecPair == InitPair /\ [][NextPair]_vars

\* No move is in transit: no worker is between get_pos and place, no Net_Send
\* waits for a network thread, no Move message is on the connection and no
\* Net_Click waits for a worker
PairQuiet ==
  \A c \in {"B", "W"} :
    /\ net.w[c].pc # "placing"
    /\ net.w[c].outbox = << >>
    /\ net.wire[c] = << >>
    /\ \A i \in DOMAIN net.w[c].inbox : net.w[c].inbox[i].type # "Net_Click"

PairAgrees ==
  /\ IsPrefix(net.w["B"].placed, net.w["W"].placed) \/ IsPrefix(net.w["W"].placed, net.w["B"].placed)
  /\ PairQuiet => /\ net.w["B"].placed = net.w["W"].placed
                  /\ net.w["B"].board = net.w["W"].board
                  /\ net.w["B"].playing_colour = net.w["W"].playing_colour \/ \E c \in {"B", "W"} : net.w[c].pc = "play"

\* What get_pos does with the message it takes, by the turn of the worker
PairTurnRule ==
  \A c \in {"B", "W"} :
    /\ Len(net'.w[c].outbox) > Len(net.w[c].outbox) =>
         /\ Head(net.w[c].inbox).type = "Click"
         /\ net.w[c].playing_colour = c
         /\ net'.w[c].tup = Head(net.w[c].inbox).data
    /\ (net.w[c].pc = "get_pos" /\ net'.w[c].pc = "placing") =>
         \/ Head(net.w[c].inbox).type = "Click" /\ net.w[c].playing_colour = c
                                                /\ Len(net'.w[c].outbox) > Len(net.w[c].outbox)
         \/ Head(net.w[c].inbox).type = "Net_Click" /\ net.w[c].playing_colour = FLIP_RULE[c]
    /\ Len(net'.w[c].placed) > Len(net.w[c].placed) =>
         net'.w[c].placed[Len(net'.w[c].placed)] = <<net.w[c].tup, net.w[c].playing_colour>>

\* C39: two workers of opposite colours, moves delivered in order: a Click is
\* returned by get_pos and forwarded only on the turn of the local colour, a
\* Net_Click is returned only on the turn of the other colour, the placements of
\* one worker are always the first placements of the other, and when no move is
\* in transit both have made the same placements and have the same board.
C39_NetworkConsistency == [](net # << >> => PairAgrees) /\ [][net # << >> => PairTurnRule]_vars

\* Both workers have played a game of nine placements to its end and nothing
\* is in transit
C39_Witness ==
  /\ net # << >>
  /\ PairQuiet
  /\ \A c \in {"B", "W"} : net.w[c].pc = "done" /\ Len(net.w[c].placed) = 9

\* Both workers have made the same nine placements, the last two by the same
\* colour after a forced pass of the other, and nothing is in transit
C39_WitnessPass ==
  /\ net # << >>
  /\ PairQuiet
  /\ \A c \in {"B", "W"} : Len(net.w[c].placed) = 9
  /\ net.w["W"].placed[8][2] = net.w["W"].placed[9][2]

\* A worker has placed a move of the other that came over the connection while
\* a click of its own player waited on its queue
C39_WitnessRace ==
  /\ net # << >>
  /\ net.w["W"].placed # << >>
  /\ net.w["W"].pc = "play"
  /\ net.w["W"].inbox # << >>
  /\ net.w["W"].inbox[1].type = "Click"
====
